---- MODULE Spec2Model ----
(***************************************************************************)
(* Time-window training/evaluation controller of hf4rec/recsys_main.py     *)
(* (main) together with the prediction sink (PredictionLogger), and the    *)
(* next-item prediction task of transformers4rec/torch/model/              *)
(* prediction_task.py (build, forward, metrics, scoring head).             *)
(*                                                                         *)
(* Python values are modelled as follows.                                  *)
(*   dict            a function from keys to values                        *)
(*   ordered dict    a sequence of [name, values] entries                  *)
(*   str built by concatenation or formatting: the sequence of its parts   *)
(*   None            the record NoneValue / the index 0 of an object table *)
(*   float metric    an integer number of tenths (5 is 0.5); a mean is the *)
(*                   reduced fraction [num, den] of tenths                 *)
(*   tensor          nested sequences; a float entry of the head is the    *)
(*                   reduced fraction [num, den]                           *)
(*   nn.Module       an entry of the store `modules`; a reference to a     *)
(*                   module is its index in the store                      *)
(* Lists are 1-based here where Python's are 0-based.                      *)
(***************************************************************************)
EXTENDS Integers, Sequences, FiniteSets, TLC

\* ------------------------------------------------------------- bounds
MaxStart == 2
MaxFinal == 4
MaxWindowSize == 2
MaxBatches == 2
MaxRows == 1
MaxItemId == 2
ItemDim == 2
MaxSeqLen == 2
MaxRank == 4
MaxMetrics == 2

\* ---------------------------------------------------------- constants
\* width of the zero-padded time index in PRED_LOG_PARQUET_FILE_PATTERN
PRED_LOG_INDEX_WIDTH == 4

VARIABLES
    pc,                      \* position of main()
    error,                   \* name of the exception that ended the run, or "none"
    output_dir,              \* "absent" | "empty" | "populated" (os.path.exists / os.listdir)
    data_args,               \* DataArguments fields read by main
    model_args,              \* ModelArguments fields read by main
    training_args,           \* TrainingArguments fields read by main
    trainer,                 \* the RecSysTrainer as main drives it
    results_over_time,       \* dict: time_index_eval -> merged metrics
    max_time_index,
    range_pos,               \* position of the iterator of range(start, max_time_index)
    time_index,
    time_indices_train,
    time_index_eval,
    train_data_paths,        \* local of main, unbound until line 262 first runs
    eval_data_paths,
    train_loader,
    eval_loader,
    n_loaders,               \* data loaders constructed so far (object identities)
    train_metrics,
    eval_metrics,
    calls,                   \* calls main made on the trainer in the current window
    n_batches,               \* batches handed to the predictions callback in the running pass
    loggers,                 \* PredictionLogger objects, in creation order
    writers,                 \* pq.ParquetWriter objects, in creation order
    results_avg_time,        \* the averaged summary, once computed
    last_batch,              \* arguments of the latest log_predictions call
    task,                    \* the NextItemPredictionTask object
    input_block,             \* the input module the task is built on
    modules,                 \* torch modules holding weights, by object identity
    forward_out,             \* locals and result of the latest forward call
    iterated                 \* ids of the loaders iterated so far, in order

vars == << pc, error, output_dir, data_args, model_args, training_args, trainer,
           results_over_time, max_time_index, range_pos, time_index,
           time_indices_train, time_index_eval, train_data_paths, eval_data_paths,
           train_loader, eval_loader, n_loaders, train_metrics, eval_metrics, calls, n_batches,
           loggers, writers, results_avg_time, last_batch, task, input_block,
           modules, forward_out, iterated >>

\* the state of the prediction task and of the modules it is built on
task_vars == << task, input_block, modules, forward_out >>

\* ------------------------------------------------------------ helpers
\* Python's None for a value that is otherwise a record with a val field
NoneValue == [bound |-> FALSE, val |-> <<>>]

Some(v) == [bound |-> TRUE, val |-> v]

EmptyDict == [k \in {} |-> 0]

RECURSIVE SumSeq(_)
SumSeq(s) == IF s = <<>> THEN 0 ELSE Head(s) + SumSeq(Tail(s))

RECURSIVE GCD(_, _)
GCD(a, b) == IF b = 0 THEN a ELSE GCD(b, a % b)

\* the elements of a finite set of integers in ascending order
RECURSIVE SortedSeq(_)
SortedSeq(S) ==
    IF S = {} THEN <<>>
    ELSE LET m == CHOOSE x \in S : \A y \in S : x <= y
         IN <<m>> \o SortedSeq(S \ {m})

\* list(range(a, b))
RangeList(a, b) == [i \in 1..(IF b > a THEN b - a ELSE 0) |-> a + i - 1]

\* the last index of a non-empty sequence dropped
Front(s) == SubSeq(s, 1, Len(s) - 1)

\* -------------------------------------------------- window arithmetic
\* lines 235-237: the exclusive upper end of the loop's range
MaxTimeIndexMutant(dargs) == dargs.final_time_window_index + 1

\* line 235 alone: the window size of line 237 not subtracted
MaxTimeIndexNoWindow(dargs) == dargs.final_time_window_index

MaxTimeIndex(dargs) ==
    IF dargs.no_incremental_training
    THEN dargs.final_time_window_index - dargs.training_time_window_size + 1
    ELSE dargs.final_time_window_index

\* lines 244-250: a list in sliding-window mode, a bare int otherwise
TimeIndicesTrainMutant(dargs, t) ==
    IF dargs.no_incremental_training
    THEN [kind |-> "list",
          val |-> RangeList(t, t + dargs.training_time_window_size + 1)]
    ELSE [kind |-> "int", val |-> t]

TimeIndicesTrain(dargs, t) ==
    IF dargs.no_incremental_training
    THEN [kind |-> "list",
          val |-> RangeList(t, t + dargs.training_time_window_size)]
    ELSE [kind |-> "int", val |-> t]

\* lines 248, 251
TimeIndexEvalMutant(dargs, t) ==
    IF dargs.no_incremental_training
    THEN dargs.start_time_window_index + dargs.training_time_window_size
    ELSE dargs.start_time_window_index + 1

TimeIndexEval(dargs, t) ==
    IF dargs.no_incremental_training
    THEN t + dargs.training_time_window_size
    ELSE t + 1

\* the indices a time_indices_train value stands for, as a list
IndicesAsList(ti) == IF ti.kind = "list" THEN ti.val ELSE <<ti.val>>

\* --------------------------------------------------- data partitions
\* recsys_utils.get_parquet_files_names: one file per time index and split
GetParquetFilesNames(indices, is_train) ==
    [i \in 1..Len(indices) |->
        [split |-> IF is_train THEN "train" ELSE "eval", index |-> indices[i]]]

\* the item-id column of the session file of one time index (sessions
\* exploded); a small corpus whose popularity order changes with the index
ParquetItems(path) ==
    CASE path.index % 3 = 0 -> <<1, 1, 1, 2>>
      [] path.index % 3 = 1 -> <<1, 2, 2, 2>>
      [] OTHER              -> <<1, 2, 3, 3, 3>>

RECURSIVE ConcatItems(_)
ConcatItems(paths) ==
    IF paths = <<>> THEN <<>>
    ELSE ParquetItems(Head(paths)) \o ConcatItems(Tail(paths))

CountOf(items, x) == Cardinality({i \in 1..Len(items) : items[i] = x})

\* ascending (count, item id) order of a set of [item, freq] entries
RECURSIVE SortByFreq(_)
SortByFreq(S) ==
    IF S = {} THEN <<>>
    ELSE LET m == CHOOSE e \in S : \A f \in S :
                      \/ e.freq < f.freq
                      \/ (e.freq = f.freq /\ e.item <= f.item)
         IN <<m>> \o SortByFreq(S \ {m})

\* lines 93-108: concat, explode, groupby size, sort_values(ascending=True)
GetItemsSortedFreq(paths) ==
    LET items == ConcatItems(paths)
        ids == {items[i] : i \in 1..Len(items)}
    IN SortByFreq({[item |-> x, freq |-> CountOf(items, x)] : x \in ids})

\* ------------------------------------------------------ data loaders
NoLoader == [id |-> 0, paths |-> <<>>, is_train_set |-> FALSE]

\* recsys_data.fetch_data_loader: a new single-pass loader object
FetchDataLoader(paths, is_train_set, id) ==
    [id |-> id, paths |-> paths, is_train_set |-> is_train_set]

\* lines 80-90 with the loaders of a partition kept and handed out again
GetDataloadersCached(train_paths, eval_paths, n) ==
    [train_loader |-> FetchDataLoader(train_paths, TRUE, train_paths[1].index),
     eval_loader |-> FetchDataLoader(eval_paths, FALSE, eval_paths[1].index)]

\* lines 80-90: two new loaders, numbered after the n built so far
GetDataloaders(train_paths, eval_paths, n) ==
    [train_loader |-> FetchDataLoader(train_paths, TRUE, n + 1),
     eval_loader |-> FetchDataLoader(eval_paths, FALSE, n + 2)]

\* ------------------------------------------------- prediction logging
RECURSIVE Digits(_)
Digits(n) == IF n < 10 THEN <<n>> ELSE Append(Digits(n \div 10), n % 10)

\* "{:04}".format(n) for n >= 0: the decimal digits, zero-padded on the left
ZeroPad(n) ==
    LET d == Digits(n)
    IN [i \in 1..(PRED_LOG_INDEX_WIDTH - Len(d)) |-> 0] \o d

\* every partition named after time index 0
PredLogPathFixed(time_index_eval_) ==
    [prefix |-> "pred_logs/preds_", digits |-> ZeroPad(0),
     suffix |-> ".parquet"]

\* line 63 and lines 456-459: PRED_LOG_PARQUET_FILE_PATTERN.format(index)
PredLogPath(time_index_eval_) ==
    [prefix |-> "pred_logs/preds_", digits |-> ZeroPad(time_index_eval_),
     suffix |-> ".parquet"]

\* lines 470-472: PredictionLogger.__init__
NewPredictionLogger(path) == [output_parquet_path |-> path, pq_writer |-> 0]

\* value of the last entry called name in an ordered dict
DictGet(d, name) ==
    d[CHOOSE i \in 1..Len(d) :
          /\ d[i].name = name
          /\ \A j \in (i + 1)..Len(d) : d[j].name # name].values

DictNames(d) == {d[i].name : i \in 1..Len(d)}

\* line 499: the row count is the length of the first metadata feature
NumPredictions(batch) == Len(batch.preds_metadata[1].values)

\* lines 502-517: the columns of one row
RowColumns(batch) ==
    {<<"dataset_type">>}
    \cup (IF batch.metrics.bound
          THEN {<<"metric_", m>> : m \in DictNames(batch.metrics.val)} ELSE {})
    \cup (IF batch.labels.bound
          THEN {<<"relevant_item_ids">>, <<"rec_item_ids">>, <<"rec_item_scores">>}
          ELSE {})
    \cup {<<"metadata_", f>> : f \in DictNames(batch.preds_metadata)}

\* lines 502-517: the row of prediction idx (1-based)
Row(batch, idx) ==
    [c \in RowColumns(batch) |->
        CASE c = <<"dataset_type">>      -> batch.dataset_type
          [] c = <<"relevant_item_ids">> -> <<batch.labels.val[idx]>>
          [] c = <<"rec_item_ids">>      -> batch.pred_item_ids[idx]
          [] c = <<"rec_item_scores">>   -> batch.pred_item_scores[idx]
          [] c[1] = "metric_"            -> DictGet(batch.metrics.val, c[2])[idx]
          [] OTHER -> <<DictGet(batch.preds_metadata, c[2])[idx]>>]

\* lines 499-521: new_rows, one row per prediction
NewRows(batch) == [idx \in 1..NumPredictions(batch) |-> Row(batch, idx)]

\* pyarrow.Table.from_pandas(df).schema: the columns of the frame, none
\* when the frame has no rows
Schema(df) == UNION {DOMAIN df[i] : i \in 1..Len(df)}

\* lines 474-484 with the check of line 475 left out
CreatePqWriterAlways(lg, ws, df) ==
    [logger |-> [lg EXCEPT !.pq_writer = Len(ws) + 1],
     writers |-> Append(ws, [path |-> lg.output_parquet_path,
                             schema |-> Schema(df),
                             tables |-> <<>>, is_open |-> TRUE])]

\* lines 474-484: PredictionLogger._create_pq_writer_if_needed
CreatePqWriterIfNeeded(lg, ws, df) ==
    IF lg.pq_writer = 0
    THEN [logger |-> [lg EXCEPT !.pq_writer = Len(ws) + 1],
          writers |-> Append(ws, [path |-> lg.output_parquet_path,
                                  schema |-> Schema(df),
                                  tables |-> <<>>, is_open |-> TRUE])]
    ELSE [logger |-> lg, writers |-> ws]

\* lines 486-488: ParquetWriter.write_table refuses a table whose schema is
\* not the schema of the file
AppendRaises(lg, ws, df) == Schema(df) # ws[lg.pq_writer].schema

AppendNewRowsToParquet(lg, ws, df) ==
    [ws EXCEPT ![lg.pq_writer].tables = Append(@, df)]

\* lines 526-528: PredictionLogger.close
Close(lg, ws) ==
    IF lg.pq_writer # 0 THEN [ws EXCEPT ![lg.pq_writer].is_open = FALSE] ELSE ws

\* ---------------------------------------------------------- metrics
MetricNames == {"ndcg_10"}

MetricValues == {5, 7}

\* RecSysTrainer.evaluate(metric_key_prefix=prefix): name -> value, every
\* name reported under the prefix
EvaluateResult(prefix, vals) ==
    [k \in {<<prefix, "_", m>> : m \in MetricNames} |-> vals[k[3]]]

\* lines 342-345 keeping the held-out metrics only
MergeResultsEvalOnly(eval_metrics_, train_metrics_) == eval_metrics_

\* lines 342-345: {**eval_metrics, **train_metrics}
MergeResults(eval_metrics_, train_metrics_) ==
    [k \in DOMAIN eval_metrics_ \cup DOMAIN train_metrics_ |->
        IF k \in DOMAIN train_metrics_ THEN train_metrics_[k] ELSE eval_metrics_[k]]

\* line 360: the columns of DataFrame.from_dict(results, orient="index")
ResultsColumns(results) == UNION {DOMAIN results[t] : t \in DOMAIN results}

\* the non-missing values of one column, in index order
ColumnValues(results, c) ==
    LET rows == SortedSeq({t \in DOMAIN results : c \in DOMAIN results[t]})
    IN [i \in 1..Len(rows) |-> results[rows[i]][c]]

\* a column's total taken for its mean
MeanAsSum(values) == [num |-> SumSeq(values), den |-> 1]

\* line 367: DataFrame.mean() of one column, as a reduced fraction
Mean(values) ==
    LET total == SumSeq(values)
        g == GCD(total, Len(values))
    IN [num |-> total \div g, den |-> Len(values) \div g]

\* lines 367-368: the mean of every column under the key column + "_AOD"
ResultsAvgTime(results) ==
    [k \in {c \o <<"_AOD">> : c \in ResultsColumns(results)} |->
        Mean(ColumnValues(results, Front(k)))]

\* the dict left as it is: the entry k: v is not stored
DictKept(d, k, v) == d

\* the dict replaced by the single entry k: v
DictReset(d, k, v) == [x \in {k} |-> v]

\* line 342: d[k] = v
DictSet(d, k, v) == [x \in DOMAIN d \cup {k} |-> IF x = k THEN v ELSE d[x]]

\* ------------------------------------------------------- the trainer
\* the RecSysTrainer of lines 209-211, before main configures it
NewTrainer ==
    [constructed |-> TRUE, train_dataloader |-> NoLoader,
     eval_dataloader |-> NoLoader, log_predictions_callback |-> 0,
     items_freq |-> NoneValue, saved |-> FALSE]

NoTrainer == [NewTrainer EXCEPT !.constructed = FALSE]

\* one call of main on the trainer: the operation, the metric prefix of an
\* evaluate (else ""), the id of the loader the call iterates (else 0)
Call(op, prefix, loader) == [op |-> op, prefix |-> prefix, loader |-> loader]

\* line 297 alone: the training call without the scheduler reset
TrainCallsNoReset(loader) == << Call("train", "", loader) >>

\* lines 296-297: the scheduler is reset, then trainer.train iterates the
\* train loader
TrainCalls(loader) ==
    << Call("reset_lr_scheduler", "", 0), Call("train", "", loader) >>

\* lines 321 and 332 alone: an evaluation pass without the wipe
EvaluatePassNoWipe(prefix, loader) == << Call("evaluate", prefix, loader) >>

\* lines 321-322 and 332-333: trainer.evaluate iterates the evaluation
\* loader, then the caches are wiped
EvaluatePass(prefix, loader) ==
    << Call("evaluate", prefix, loader), Call("wipe_memory", "", 0) >>

\* the batch the trainer's evaluation loop hands to the predictions
\* callback for one file of the loader it iterates: one prediction per item
TrainerBatch(dataset_type, path) ==
    LET labels == ParquetItems(path)
        n == Len(labels)
    IN [labels |-> Some(labels),
        pred_item_ids |-> [i \in 1..n |-> <<labels[i], labels[i] + 1>>],
        pred_item_scores |-> [i \in 1..n |-> <<9, 8>>],
        preds_metadata |-> <<[name |-> "session_id",
                              values |-> [i \in 1..n |-> path.index]]>>,
        metrics |-> Some(<<[name |-> "ndcg_10", values |-> [i \in 1..n |-> 5]]>>),
        dataset_type |-> dataset_type]

\* lines 490-524: PredictionLogger.log_predictions on logger lg
LogPredictions(lg, ws, batch) ==
    IF batch.preds_metadata = <<>>
    THEN [logger |-> lg, writers |-> ws, error |-> "IndexError"]
    ELSE LET df == NewRows(batch)
             cw == CreatePqWriterIfNeeded(lg, ws, df)
         IN IF AppendRaises(cw.logger, cw.writers, df)
            THEN [logger |-> cw.logger, writers |-> cw.writers,
                  error |-> "ValueError"]
            ELSE [logger |-> cw.logger,
                  writers |-> AppendNewRowsToParquet(cw.logger, cw.writers, df),
                  error |-> "none"]

\* lines 151-156 with the negation of line 155 dropped
PreflightRaisesOnOverwrite(dir, targs) ==
    dir = "populated" /\ targs.do_train /\ targs.overwrite_output_dir

\* lines 151-156: the populated-output-directory check
PreflightRaises(dir, targs) ==
    dir = "populated" /\ targs.do_train /\ ~targs.overwrite_output_dir

\* lines 253-256
NegSamplingEnabled(margs) ==
    margs.negative_sampling /\ margs.neg_sampling_extra_samples_per_batch > 0

\* -------------------------------------------------------------- Init
DataArgs ==
    {d \in [start_time_window_index : 1..MaxStart,
            final_time_window_index : 1..MaxFinal,
            training_time_window_size : 1..MaxWindowSize,
            no_incremental_training : BOOLEAN] :
        \* the window size is read in sliding-window mode only
        ~d.no_incremental_training => d.training_time_window_size = 1}

ModelArgs ==
    {m \in [negative_sampling : BOOLEAN,
            neg_sampling_extra_samples_per_batch : 0..1] :
        \* line 255 is evaluated only when negative_sampling is set
        ~m.negative_sampling => m.neg_sampling_extra_samples_per_batch = 0}

TrainingArgs ==
    [do_train : BOOLEAN, do_eval : BOOLEAN, overwrite_output_dir : BOOLEAN,
     log_predictions : BOOLEAN]

Init ==
    /\ pc = "preflight"
    /\ error = "none"
    /\ output_dir \in {"absent", "empty", "populated"}
    /\ data_args \in DataArgs
    /\ model_args \in ModelArgs
    /\ training_args \in TrainingArgs
    \* line 155 is evaluated only for a populated directory and do_train
    /\ (~(output_dir = "populated" /\ training_args.do_train)
            => ~training_args.overwrite_output_dir)
    \* line 455 is evaluated only when do_eval is set
    /\ (~training_args.do_eval => ~training_args.log_predictions)
    /\ trainer = NoTrainer
    /\ results_over_time = EmptyDict
    /\ max_time_index = 0
    /\ range_pos = 0
    /\ time_index = 0
    /\ time_indices_train = [kind |-> "int", val |-> 0]
    /\ time_index_eval = 0
    /\ train_data_paths = NoneValue
    /\ eval_data_paths = <<>>
    /\ train_loader = NoLoader
    /\ eval_loader = NoLoader
    /\ n_loaders = 0
    /\ train_metrics = EmptyDict
    /\ eval_metrics = EmptyDict
    /\ calls = <<>>
    /\ n_batches = 0
    /\ loggers = <<>>
    /\ writers = <<>>
    /\ results_avg_time = NoneValue
    /\ last_batch = NoneValue
    /\ task = NoneValue
    /\ input_block = NoneValue
    /\ modules = <<>>
    /\ forward_out = NoneValue
    /\ iterated = <<>>

\* ----------------------------------------------------------- actions
\* lines 151-162: the pre-flight check of the output directory
Preflight ==
    /\ UNCHANGED << last_batch, iterated, task_vars >>
    /\ pc = "preflight"
    /\ IF PreflightRaises(output_dir, training_args)
       THEN /\ pc' = "error"
            /\ error' = "ValueError: output directory"
            /\ UNCHANGED output_dir
       ELSE /\ pc' = "setup"
            /\ output_dir' = IF output_dir = "absent" THEN "empty" ELSE output_dir
            /\ UNCHANGED error
    /\ UNCHANGED << data_args, model_args, training_args, trainer,
                    results_over_time, max_time_index, range_pos, time_index,
                    time_indices_train, time_index_eval, train_data_paths,
                    eval_data_paths, train_loader, eval_loader, n_loaders,
                    train_metrics, eval_metrics, calls, n_batches, loggers, writers,
                    results_avg_time >>

\* lines 164-237: logging set up (log.json is created in the output
\* directory), model and trainer built, results table and loop bound set
Setup ==
    /\ UNCHANGED << last_batch, iterated, task_vars >>
    /\ pc = "setup"
    /\ output_dir' = "populated"
    /\ trainer' = NewTrainer
    /\ results_over_time' = EmptyDict
    /\ max_time_index' = MaxTimeIndex(data_args)
    /\ pc' = "loop"
    /\ UNCHANGED << error, data_args, model_args, training_args, range_pos,
                    time_index, time_indices_train, time_index_eval,
                    train_data_paths, eval_data_paths, train_loader, eval_loader,
                    n_loaders, train_metrics, eval_metrics, calls, n_batches, loggers, writers,
                    results_avg_time >>

\* lines 240-270: the loop head takes the next index of the range, derives
\* the windows, refreshes the sampler's item frequencies when negative
\* sampling asks for it, and resolves the partitions; an exhausted range
\* leaves the loop
LoopHead ==
    /\ UNCHANGED << last_batch, iterated, task_vars >>
    /\ pc = "loop"
    /\ LET t == data_args.start_time_window_index + range_pos
           tit == TimeIndicesTrain(data_args, t)
           tie == TimeIndexEval(data_args, t)
       IN IF t < max_time_index
          THEN /\ range_pos' = range_pos + 1
               /\ time_index' = t
               /\ time_indices_train' = tit
               /\ time_index_eval' = tie
               /\ calls' = <<>>
               /\ IF NegSamplingEnabled(model_args) /\ ~train_data_paths.bound
                  THEN \* line 258 reads train_data_paths before line 262 binds it
                       /\ pc' = "error"
                       /\ error' = "UnboundLocalError"
                       /\ UNCHANGED << trainer, train_data_paths, eval_data_paths >>
                  ELSE /\ pc' = "train"
                       /\ trainer' =
                            IF NegSamplingEnabled(model_args)
                            THEN [trainer EXCEPT !.items_freq =
                                    Some(GetItemsSortedFreq(train_data_paths.val))]
                            ELSE trainer
                       /\ train_data_paths' =
                            Some(GetParquetFilesNames(IndicesAsList(tit), TRUE))
                       /\ eval_data_paths' = GetParquetFilesNames(<<tie>>, FALSE)
                       /\ UNCHANGED error
          ELSE /\ pc' = "finish"
               /\ UNCHANGED << error, range_pos, time_index, time_indices_train,
                               time_index_eval, calls, trainer, train_data_paths,
                               eval_data_paths >>
    /\ UNCHANGED << output_dir, data_args, model_args, training_args,
                    results_over_time, max_time_index, train_loader, eval_loader,
                    n_loaders, train_metrics, eval_metrics, n_batches, loggers, writers,
                    results_avg_time >>

\* lines 273-297: training, when do_train is set
Train ==
    /\ UNCHANGED << last_batch, task_vars >>
    /\ pc = "train"
    /\ pc' = "eval"
    /\ IF training_args.do_train
       THEN LET dl == GetDataloaders(train_data_paths.val, eval_data_paths, n_loaders)
            IN /\ train_loader' = dl.train_loader
               /\ eval_loader' = dl.eval_loader
               /\ n_loaders' = n_loaders + 2
               /\ trainer' = [trainer EXCEPT !.train_dataloader = dl.train_loader,
                                             !.eval_dataloader = dl.eval_loader]
               /\ calls' = calls \o TrainCalls(dl.train_loader.id)
               /\ iterated' = Append(iterated, dl.train_loader.id)
       ELSE UNCHANGED << train_loader, eval_loader, n_loaders, trainer, calls,
                         iterated >>
    /\ UNCHANGED << error, output_dir, data_args, model_args, training_args,
                    results_over_time, max_time_index, range_pos, time_index,
                    time_indices_train, time_index_eval, train_data_paths,
                    eval_data_paths, train_metrics, eval_metrics, n_batches, loggers, writers,
                    results_avg_time >>

\* lines 300-319 and 451-462: when do_eval is set, a new prediction logger
\* becomes the trainer's callback (if predictions are logged), both loaders
\* are built again and the train loader is set as the evaluation loader
EvalSetup ==
    /\ UNCHANGED << last_batch, iterated, task_vars >>
    /\ pc = "eval"
    /\ IF training_args.do_eval
       THEN LET dl == GetDataloaders(train_data_paths.val, eval_data_paths, n_loaders)
                lgs == IF training_args.log_predictions
                       THEN Append(loggers,
                                   NewPredictionLogger(PredLogPath(time_index_eval)))
                       ELSE loggers
            IN /\ loggers' = lgs
               /\ train_loader' = dl.train_loader
               /\ eval_loader' = dl.eval_loader
               /\ n_loaders' = n_loaders + 2
               /\ trainer' =
                    [trainer EXCEPT
                        !.log_predictions_callback =
                            IF training_args.log_predictions THEN Len(lgs) ELSE @,
                        !.train_dataloader = dl.train_loader,
                        !.eval_dataloader = dl.train_loader]
               /\ n_batches' = 0
               /\ pc' = "evaluate_train"
       ELSE /\ pc' = "loop"
            /\ UNCHANGED << loggers, train_loader, eval_loader, n_loaders, trainer,
                            n_batches >>
    /\ UNCHANGED << error, output_dir, data_args, model_args, training_args,
                    results_over_time, max_time_index, range_pos, time_index,
                    time_indices_train, time_index_eval, train_data_paths,
                    eval_data_paths, train_metrics, eval_metrics, calls, writers,
                    results_avg_time >>

\* inside trainer.evaluate (lines 321, 332): the evaluation loop hands the
\* predictions of the next file of its loader to the callback,
\* PredictionLogger.log_predictions
LogPredictionsCall ==
    /\ UNCHANGED << iterated, task_vars >>
    /\ pc \in {"evaluate_train", "evaluate_eval"}
    /\ trainer.log_predictions_callback # 0
    /\ n_batches < Len(trainer.eval_dataloader.paths)
    /\ LET cb == trainer.log_predictions_callback
           dataset_type == IF pc = "evaluate_train" THEN "train" ELSE "eval"
           path == trainer.eval_dataloader.paths[n_batches + 1]
           r == LogPredictions(loggers[cb], writers,
                               TrainerBatch(dataset_type, path))
       IN /\ last_batch' = Some(TrainerBatch(dataset_type, path))
          /\ loggers' = [loggers EXCEPT ![cb] = r.logger]
          /\ writers' = r.writers
          /\ IF r.error = "none"
             THEN /\ n_batches' = n_batches + 1
                  /\ UNCHANGED << pc, error >>
             ELSE /\ pc' = "error"
                  /\ error' = r.error
                  /\ UNCHANGED n_batches
    /\ UNCHANGED << output_dir, data_args, model_args, training_args, trainer,
                    results_over_time, max_time_index, range_pos, time_index,
                    time_indices_train, time_index_eval, train_data_paths,
                    eval_data_paths, train_loader, eval_loader, n_loaders,
                    train_metrics, eval_metrics, calls, results_avg_time >>

\* the evaluation loop has handed every batch of its loader to the callback
PassComplete ==
    \/ trainer.log_predictions_callback = 0
    \/ n_batches = Len(trainer.eval_dataloader.paths)

\* lines 321-331: the pass over the training partition returns its metrics,
\* caches are wiped, the held-out loader becomes the evaluation loader
EvaluateTrainReturn ==
    /\ UNCHANGED << last_batch, task_vars >>
    /\ pc = "evaluate_train"
    /\ PassComplete
    /\ \E vals \in [MetricNames -> MetricValues] :
          train_metrics' = EvaluateResult("train", vals)
    /\ calls' = calls \o EvaluatePass("train", trainer.eval_dataloader.id)
    /\ iterated' = Append(iterated, trainer.eval_dataloader.id)
    /\ trainer' = [trainer EXCEPT !.eval_dataloader = eval_loader]
    /\ n_batches' = 0
    /\ pc' = "evaluate_eval"
    /\ UNCHANGED eval_metrics
    /\ UNCHANGED << error, output_dir, data_args, model_args, training_args,
                    results_over_time, max_time_index, range_pos, time_index,
                    time_indices_train, time_index_eval, train_data_paths,
                    eval_data_paths, train_loader, eval_loader, n_loaders,
                    loggers, writers, results_avg_time >>

\* lines 332-345: the pass over the held-out partition returns its
\* metrics, caches are wiped, the merged record is stored under the
\* evaluation index
EvaluateEvalReturn ==
    /\ UNCHANGED << last_batch, task_vars >>
    /\ pc = "evaluate_eval"
    /\ PassComplete
    /\ \E vals \in [MetricNames -> MetricValues] :
          /\ eval_metrics' = EvaluateResult("eval", vals)
          /\ results_over_time' =
                DictSet(results_over_time, time_index_eval,
                        MergeResults(eval_metrics', train_metrics))
    /\ calls' = calls \o EvaluatePass("eval", trainer.eval_dataloader.id)
    /\ iterated' = Append(iterated, trainer.eval_dataloader.id)
    /\ n_batches' = 0
    /\ pc' = "loop"
    /\ UNCHANGED << error, output_dir, data_args, model_args, training_args,
                    trainer, max_time_index, range_pos, time_index,
                    time_indices_train, time_index_eval, train_data_paths,
                    eval_data_paths, train_loader, eval_loader, n_loaders,
                    train_metrics, loggers, writers, results_avg_time >>

\* lines 347-375: after the loop the main process saves the model and, when
\* do_eval is set, computes the averaged summary of the results table
Finish ==
    /\ UNCHANGED << last_batch, iterated, task_vars >>
    /\ pc = "finish"
    /\ pc' = "done"
    /\ \E is_world_process_zero \in BOOLEAN :
          IF is_world_process_zero
          THEN /\ trainer' = [trainer EXCEPT !.saved = TRUE]
               /\ results_avg_time' =
                    IF training_args.do_eval
                    THEN Some(ResultsAvgTime(results_over_time))
                    ELSE results_avg_time
          ELSE UNCHANGED << trainer, results_avg_time >>
    /\ UNCHANGED << error, output_dir, data_args, model_args, training_args,
                    results_over_time, max_time_index, range_pos, time_index,
                    time_indices_train, time_index_eval, train_data_paths,
                    eval_data_paths, train_loader, eval_loader, n_loaders,
                    train_metrics, eval_metrics, calls, n_batches, loggers, writers >>

Next ==
    \/ Preflight
    \/ Setup
    \/ LoopHead
    \/ Train
    \/ EvalSetup
    \/ LogPredictionsCall
    \/ EvaluateTrainReturn
    \/ EvaluateEvalReturn
    \/ Finish

Spec == Init /\ [][Next]_vars

\* ------------------------------------------- one prediction logger alone
\* the calls a caller can make on one PredictionLogger: batches of up to
\* MaxRows predictions, with or without labels, metrics and metadata
LoggerBatches ==
    {[labels |-> IF has_labels THEN Some([i \in 1..n |-> i]) ELSE NoneValue,
      pred_item_ids |-> [i \in 1..n |-> <<i, i + 1>>],
      pred_item_scores |-> [i \in 1..n |-> <<9, 8>>],
      preds_metadata |->
          IF has_metadata
          THEN <<[name |-> "session_id", values |-> [i \in 1..n |-> 10 + i]]>>
          ELSE <<>>,
      metrics |->
          IF has_metrics
          THEN Some(<<[name |-> "ndcg_10", values |-> [i \in 1..n |-> 5]]>>)
          ELSE NoneValue,
      dataset_type |-> dataset_type] :
        n \in 0..MaxRows, has_labels \in BOOLEAN, has_metadata \in BOOLEAN,
        has_metrics \in BOOLEAN, dataset_type \in {"train", "eval"}}

\* lines 461, 470-472: a logger just constructed, nothing else running
LoggerInit ==
    /\ pc = "logger"
    /\ error = "none"
    /\ output_dir = "populated"
    /\ data_args = CHOOSE d \in DataArgs : TRUE
    /\ model_args = CHOOSE m \in ModelArgs : TRUE
    /\ training_args = CHOOSE a \in TrainingArgs : a.log_predictions
    /\ trainer = NewTrainer
    /\ results_over_time = EmptyDict
    /\ max_time_index = 0
    /\ range_pos = 0
    /\ time_index = 0
    /\ time_indices_train = [kind |-> "int", val |-> 0]
    /\ time_index_eval \in 1..MaxFinal
    /\ train_data_paths = NoneValue
    /\ eval_data_paths = <<>>
    /\ train_loader = NoLoader
    /\ eval_loader = NoLoader
    /\ n_loaders = 0
    /\ train_metrics = EmptyDict
    /\ eval_metrics = EmptyDict
    /\ calls = <<>>
    /\ n_batches = 0
    /\ loggers = <<NewPredictionLogger(PredLogPath(time_index_eval))>>
    /\ writers = <<>>
    /\ results_avg_time = NoneValue
    /\ last_batch = NoneValue
    /\ task = NoneValue
    /\ input_block = NoneValue
    /\ modules = <<>>
    /\ forward_out = NoneValue
    /\ iterated = <<>>

\* lines 490-524: one log_predictions call on the logger
LoggerLogPredictions ==
    /\ UNCHANGED << iterated, task_vars >>
    /\ pc = "logger"
    /\ n_batches < MaxBatches
    /\ \E batch \in LoggerBatches :
          LET r == LogPredictions(loggers[1], writers, batch)
          IN /\ last_batch' = Some(batch)
             /\ loggers' = [loggers EXCEPT ![1] = r.logger]
             /\ writers' = r.writers
             /\ IF r.error = "none"
                THEN /\ n_batches' = n_batches + 1
                     /\ UNCHANGED << pc, error >>
                ELSE /\ pc' = "error"
                     /\ error' = r.error
                     /\ UNCHANGED n_batches
    /\ UNCHANGED << output_dir, data_args, model_args, training_args, trainer,
                    results_over_time, max_time_index, range_pos, time_index,
                    time_indices_train, time_index_eval, train_data_paths,
                    eval_data_paths, train_loader, eval_loader, n_loaders,
                    train_metrics, eval_metrics, calls, results_avg_time >>

\* lines 526-528: the close call on the logger
LoggerClose ==
    /\ UNCHANGED << last_batch, iterated, task_vars >>
    /\ pc = "logger"
    /\ writers' = Close(loggers[1], writers)
    /\ pc' = "closed"
    /\ UNCHANGED << error, output_dir, data_args, model_args, training_args,
                    trainer, results_over_time, max_time_index, range_pos,
                    time_index, time_indices_train, time_index_eval,
                    train_data_paths, eval_data_paths, train_loader, eval_loader,
                    n_loaders, train_metrics, eval_metrics, calls, n_batches, loggers,
                    results_avg_time >>

LoggerNext == LoggerLogPredictions \/ LoggerClose

LoggerSpec == LoggerInit /\ [][LoggerNext]_vars

\* =========================================== next-item prediction task
\* (transformers4rec/torch/model/prediction_task.py)
\*
\* A tensor is a sequence (1-D), a sequence of rows (2-D) or a sequence of
\* rows of vectors (3-D).  A float is the reduced fraction [num, den] with
\* den > 0.  A module holding a weight is an entry of modules; a reference
\* to it is its index, None is 0.

\* ---------------------------------------------------------- fractions
Abs(n) == IF n < 0 THEN 0 - n ELSE n

\* the fraction n / d (d # 0) in lowest terms
Frac(n, d) ==
    LET g == GCD(Abs(n), Abs(d))
        s == IF d < 0 THEN 0 - 1 ELSE 1
    IN [num |-> (s * n) \div g, den |-> (s * d) \div g]

FracLess(a, b) == a.num * b.den < b.num * a.den

FracSub(a, b) == Frac(a.num * b.den - b.num * a.den, a.den * b.den)

\* ------------------------------------------------------------ tensors
\* torch.Tensor.flatten over the first two dimensions: the rows concatenated
RECURSIVE Flatten(_)
Flatten(t) == IF t = <<>> THEN <<>> ELSE Head(t) \o Flatten(Tail(t))

\* line 428 comparing with 0 whatever the padding index is
NonPadMaskZero(trg_flat, padding_idx) ==
    [i \in 1..Len(trg_flat) |-> trg_flat[i] # 0]

\* line 428: trg_flat != self.padding_idx
NonPadMask(trg_flat, padding_idx) ==
    [i \in 1..Len(trg_flat) |-> trg_flat[i] # padding_idx]

\* torch.masked_select on 1-D tensors: the elements under a true mask entry,
\* in order
RECURSIVE MaskedSelect(_, _)
MaskedSelect(t, mask) ==
    IF t = <<>> THEN <<>>
    ELSE (IF Head(mask) THEN <<Head(t)>> ELSE <<>>)
         \o MaskedSelect(Tail(t), Tail(mask))

\* line 453: non_pad_mask.unsqueeze(1).expand_as(inp_tensor), the mask entry
\* of a row repeated over the row
ExpandAs(non_pad_mask, inp_tensor) ==
    [i \in 1..Len(inp_tensor) |->
        [d \in 1..Len(inp_tensor[i]) |-> non_pad_mask[i]]]

\* line 455: Tensor.view(-1, n), consecutive runs of n elements
View(flat, n) ==
    [i \in 1..(Len(flat) \div n) |-> SubSeq(flat, (i - 1) * n + 1, i * n)]

\* lines 449-456 without the selection: every position kept
RemovePad3dKeepAll(inp_tensor, non_pad_mask) == Flatten(inp_tensor)

\* lines 449-456: NextItemPredictionTask.remove_pad_3d
RemovePad3d(inp_tensor, non_pad_mask) ==
    LET inp == Flatten(inp_tensor)
        inp_tensor_fl == MaskedSelect(Flatten(inp),
                                      Flatten(ExpandAs(non_pad_mask, inp)))
    IN View(inp_tensor_fl, Len(inp[1]))

\* torch.nn.functional.linear(inputs, weight, bias) on integer tensors:
\* inputs [n, d], weight [out, d], bias [out]
Linear(inputs_, weight, bias) ==
    [i \in 1..Len(inputs_) |->
        [v \in 1..Len(weight) |->
            SumSeq([d \in 1..Len(weight[v]) |-> inputs_[i][d] * weight[v][d]])
            + bias[v]]]

\* the largest entry of a non-empty vector of fractions
RECURSIVE FracMax(_)
FracMax(v) ==
    IF Len(v) = 1 THEN v[1]
    ELSE LET m == FracMax(Tail(v))
         IN IF FracLess(v[1], m) THEN m ELSE v[1]

\* torch.nn.LogSoftmax(dim=-1).  log_softmax(z)[i] is z[i] - log(sum_j
\* exp(z[j])): a row of the result is determined by, and determines, the
\* differences z[i] - z[j].  A row of the result is represented by these
\* differences taken against the row's largest entry.
LogSoftmax(logits) ==
    [i \in 1..Len(logits) |->
        [v \in 1..Len(logits[i]) |-> FracSub(logits[i][v], FracMax(logits[i]))]]

\* an integer tensor [n, m] read as floats
AsFloat(t) == [i \in 1..Len(t) |-> [v \in 1..Len(t[i]) |-> Frac(t[i][v], 1)]]

\* line 578: torch.div(logits, temperature), elementwise
Div(logits, temperature) ==
    [i \in 1..Len(logits) |->
        [v \in 1..Len(logits[i]) |->
            Frac(logits[i][v].num, logits[i][v].den * temperature)]]

\* ----------------------------------------------------------- fixtures
\* the item vocabulary; id 0 is the default padding token
ItemIds == 0..MaxItemId

\* torch.nn.Embedding(num_embeddings, ItemDim): the item-embedding table of
\* the input module, row v + 1 holding the vector of item v
NewEmbedding ==
    [kind |-> "Embedding", num_embeddings |-> Cardinality(ItemIds),
     weight |-> [v \in 1..Cardinality(ItemIds) |-> [d \in 1..ItemDim |-> v + d - 1]]]

\* torch.nn.Linear(in_features, out_features): a layer owning its weight
\* and bias
NewLinear(in_features, out_features) ==
    [kind |-> "Linear",
     weight |-> [v \in 1..out_features |-> [d \in 1..in_features |-> v * d]],
     bias |-> [v \in 1..out_features |-> v]]

\* MLPBlock([item_dim]) built on inputs of some size: a dense layer with
\* ReLU to vectors of size item_dim (all weights one, no bias)
MLPBlock(item_dim, input_size) ==
    [kind |-> "MLPBlock", dimensions |-> <<item_dim>>, input_size |-> input_size]

Relu(n) == IF n < 0 THEN 0 ELSE n

MLPBlockApply(block, vector) ==
    [d \in 1..block.dimensions[1] |-> Relu(SumSeq(vector))]

\* a hidden-state tensor: its number of dimensions and its entries
Tensor(rank, data) == [rank |-> rank, data |-> data]

\* a module applied along the last dimension of a 2-D or 3-D tensor
ApplyLast(block, x) ==
    IF x.rank = 3
    THEN Tensor(3, [b \in 1..Len(x.data) |->
                       [s \in 1..Len(x.data[b]) |->
                           MLPBlockApply(block, x.data[b][s])]])
    ELSE Tensor(2, [i \in 1..Len(x.data) |-> MLPBlockApply(block, x.data[i])])

\* the masked targets a causal-language-model masking derives from the item
\* sequences: every position holds the next item of its row, the last one
\* the padding token
MaskedTargets(item_seq, padding_idx) ==
    [b \in 1..Len(item_seq) |-> Tail(item_seq[b]) \o <<padding_idx>>]

\* -------------------------------------------------- the task object
\* lines 164-165: PredictionTask.set_metrics(metrics): the task holds the
\* objects of the list it is given
SetMetrics(t, metrics) == [t EXCEPT !.metrics = metrics]

\* lines 69-88 and 345-365: NextItemPredictionTask.__init__ (task_block,
\* target_dim left at their defaults; embeddings and built are attributes
\* that build creates); line 84 is the call of set_metrics
NewNextItemPredictionTask(metrics, weight_tying, softmax_temperature, padding_idx, hf_format) ==
    SetMetrics([metrics |-> << >>, target_name |-> NoneValue,
                pre |-> NoneValue,
                task_block |-> NoneValue, task_name_ |-> "next-item",
                softmax_temperature |-> softmax_temperature,
                weight_tying |-> weight_tying, padding_idx |-> padding_idx,
                target_dim |-> 0, hf_format |-> hf_format,
                item_embedding_table |-> 0, masking |-> NoneValue,
                embeddings |-> NoneValue, built |-> FALSE],
               metrics)

\* lines 369-372 with "and" for "or"
BuildRejectsSizeLax(input_size) ==
    ~(Len(input_size.dims) = 3) /\ input_size.is_dict

\* lines 369-372: not len(input_size) == 3 or isinstance(input_size, dict)
BuildRejectsSize(input_size) ==
    ~(Len(input_size.dims) = 3) \/ input_size.is_dict

\* lines 375-381: no item_id column in the input module
BuildRejectsInputs(inputs_) == ~inputs_.item_id.bound

\* lines 543-563: _NextItemPredictionTask.__init__, the new Linear layer
\* (if any) being module number n + 1
NewHead(input_size, target_dim, weight_tying, item_embedding_table, softmax_temperature, n) ==
    [input_size |-> input_size, target_dim |-> target_dim,
     weight_tying |-> weight_tying,
     item_embedding_table |-> item_embedding_table,
     softmax_temperature |-> softmax_temperature,
     output_layer_bias |->
         IF weight_tying THEN Some([v \in 1..target_dim |-> 0]) ELSE NoneValue,
     output_layer |-> IF weight_tying THEN 0 ELSE n + 1]

\* copy.deepcopy of module number id: a new module with equal weights
DeepCopy(ms, id) == Append(ms, ms[id])

\* lines 382-387 tying the head to a copy of the table
TiedTableCopied(ms, table) == [modules |-> DeepCopy(ms, table), table |-> Len(ms) + 1]

\* lines 385-386: self.item_embedding_table = self.embeddings.item_embedding_table
TiedTable(ms, table) == [modules |-> ms, table |-> table]

\* lines 367-410 and 90-136: NextItemPredictionTask.build on a body whose
\* inputs are inputs_ (device None, no task_block argument); returns the
\* task, the modules and the error raised
Build(t, ms, input_size, inputs_) ==
    IF BuildRejectsSize(input_size) \/ BuildRejectsInputs(inputs_)
    THEN [task |-> t, modules |-> ms, error |-> "ValueError"]
    ELSE LET table == inputs_.categorical_module.item_embedding_table
             target_dim == IF t.target_dim = 0
                           THEN ms[table].num_embeddings ELSE t.target_dim
             tied == IF t.weight_tying THEN TiedTable(ms, table)
                     ELSE [modules |-> ms, table |-> 0]
             item_dim == Len(ms[table].weight[1])
             last == input_size.dims[Len(input_size.dims)]
             task_block == IF t.weight_tying /\ last # item_dim
                           THEN Some(MLPBlock(item_dim, input_size)) ELSE t.task_block
             pre_input_size == IF task_block.bound
                               THEN [input_size EXCEPT
                                        !.dims[Len(input_size.dims)] = item_dim]
                               ELSE input_size
             padding_idx == IF inputs_.masking.bound
                            THEN inputs_.masking.val.padding_idx
                            ELSE t.padding_idx
             pre == NewHead(pre_input_size, target_dim, t.weight_tying,
                            tied.table, t.softmax_temperature,
                            Len(tied.modules))
         IN [task |-> [t EXCEPT
                        !.embeddings = Some("categorical_module"),
                        !.target_dim = target_dim,
                        !.item_embedding_table = tied.table,
                        !.masking = IF inputs_.masking.bound
                                    THEN Some("masking") ELSE NoneValue,
                        !.padding_idx = padding_idx,
                        !.task_block = task_block,
                        !.pre = Some(pre),
                        !.built = TRUE],
             modules |-> IF t.weight_tying THEN tied.modules
                         ELSE Append(tied.modules,
                                     NewLinear(pre_input_size.dims[
                                                   Len(pre_input_size.dims)],
                                               target_dim)),
             error |-> "none"]

\* ------------------------------------------------------- the forward
\* lines 575-578: if self.softmax_temperature: logits = torch.div(...)
Scale(logits, softmax_temperature) ==
    IF softmax_temperature # 0
    THEN Div(logits, softmax_temperature) ELSE logits

\* lines 566-573: the module whose weight the projection reads
ProjectionModule(pre) ==
    IF pre.weight_tying THEN pre.item_embedding_table ELSE pre.output_layer

\* lines 565-582: _NextItemPredictionTask.forward on a [n, d] tensor
HeadForward(pre, ms, inputs_) ==
    LET logits == IF pre.weight_tying
                  THEN Linear(inputs_, ms[pre.item_embedding_table].weight,
                              pre.output_layer_bias.val)
                  ELSE Linear(inputs_, ms[pre.output_layer].weight,
                              ms[pre.output_layer].bias)
    IN [logits |-> AsFloat(logits),
        weight |-> ms[ProjectionModule(pre)].weight,
        predictions |->
            LogSoftmax(Scale(AsFloat(logits), pre.softmax_temperature))]

\* lines 421-424: the labels of the batch the input module has processed
Labels(t, ib) ==
    IF t.masking.bound THEN ib.masking.val.masked_targets
    ELSE ib.categorical_module.item_seq

\* lines 427-429: the labels of the non-padded positions
LabelsAll(t, ib) ==
    LET trg_flat == Flatten(Labels(t, ib))
    IN MaskedSelect(trg_flat, NonPadMask(trg_flat, t.padding_idx))

\* lines 412-447: NextItemPredictionTask.forward of a built task on the
\* hidden states x.  expand_as (line 453) raises RuntimeError when the
\* flattened input has one dimension only.
Forward(t, ib, ms, x) ==
    LET x1 == IF t.task_block.bound THEN ApplyLast(t.task_block.val, x) ELSE x
        trg_flat == Flatten(Labels(t, ib))
        non_pad_mask == NonPadMask(trg_flat, t.padding_idx)
        labels_all == MaskedSelect(trg_flat, non_pad_mask)
    IN IF x1.rank # 3
       THEN [call |-> "forward", error |-> "RuntimeError", labels_all |-> labels_all,
             states_flat |-> <<>>, logits |-> <<>>, weight |-> <<>>,
             predictions |-> <<>>, result |-> NoneValue]
       ELSE LET states_flat == RemovePad3d(x1.data, non_pad_mask)
                head == HeadForward(t.pre.val, ms, states_flat)
            IN [call |-> "forward", error |-> "none", labels_all |-> labels_all,
                states_flat |-> states_flat, logits |-> head.logits,
                weight |-> head.weight, predictions |-> head.predictions,
                result |->
                    IF t.hf_format
                    THEN Some([loss |-> [input |-> head.predictions,
                                         target |-> labels_all],
                               labels |-> labels_all,
                               predictions |-> head.predictions,
                               pred_metadata |-> <<>>,
                               model_outputs |-> <<>>])
                    ELSE Some(head.predictions)]

\* ---------------------------------------------------- ranking metrics
\* a ranking metric object (NDCGAt, AvgPrecisionAt, RecallAt of
\* ranking_metric.py): class name as its capitalised words, cutoffs, and
\* whether the labels are item ids to be one-hot encoded (labels_onehot),
\* and the running sums (one per cutoff) and row count of the streaming
\* mean. id is the identity of the object: the entries of a list that have
\* one id are one object
NewMetric(id, class, top_ks, labels_onehot) ==
    [id |-> id, class |-> class, top_ks |-> top_ks,
     labels_onehot |-> labels_onehot,
     sums |-> [j \in 1..Len(top_ks) |-> 0], count |-> 0]

\* position of the labelled item when items are ordered by descending
\* score, ties by ascending item id
RankOf(scores, label) ==
    1 + Cardinality({v \in 1..Len(scores) :
                        \/ FracLess(scores[label + 1], scores[v])
                        \/ (scores[v] = scores[label + 1] /\ v < label + 1)})

\* the measure of one row in thousandths, for one relevant item at rank r:
\* recall 1, average precision 1/r, NDCG 1/log2(r + 1); 0 beyond the cutoff
Measure(class, k, r) ==
    IF r > k THEN 0
    ELSE CASE class = <<"Recall", "At">> -> 1000
           [] class = <<"Avg", "Precision", "At">> -> 1000 \div r
           [] OTHER -> IF r = 1 THEN 1000
                       ELSE IF r = 2 THEN 631
                       ELSE IF r = 3 THEN 500
                       ELSE IF r = 4 THEN 431 ELSE 1000 \div r

\* torchmetrics.Metric.reset
MetricReset(metric) ==
    NewMetric(metric.id, metric.class, metric.top_ks, metric.labels_onehot)

\* Metric.update(preds, target): the measures of the rows added to the sums
MetricUpdate(metric, predictions, targets) ==
    [metric EXCEPT
        !.sums = [j \in 1..Len(metric.top_ks) |->
                    metric.sums[j]
                    + SumSeq([i \in 1..Len(targets) |->
                                 Measure(metric.class, metric.top_ks[j],
                                         RankOf(predictions[i], targets[i]))])],
        !.count = metric.count + Len(targets)]

\* Metric.compute(): the mean per cutoff; not a number over zero rows
MetricCompute(metric) ==
    [j \in 1..Len(metric.top_ks) |->
        IF metric.count = 0 THEN [num |-> 0, den |-> 0]
        ELSE Frac(metric.sums[j], metric.count)]

\* Metric.__call__(preds, target): the value of the batch alone
MetricBatchValue(metric, predictions, targets) ==
    MetricCompute(MetricUpdate(MetricReset(metric), predictions, targets))

\* merlin_standard_lib.registry.camelcase_to_snakecase: the words of the
\* name in lower case, joined by "_"
Lower(word) ==
    CASE word = "NDCG" -> "ndcg"
      [] word = "Avg" -> "avg"
      [] word = "Precision" -> "precision"
      [] word = "Recall" -> "recall"
      [] word = "At" -> "at"

RECURSIVE CamelcaseToSnakecase(_)
CamelcaseToSnakecase(words) ==
    IF Len(words) = 1 THEN <<Lower(words[1])>>
    ELSE CamelcaseToSnakecase(Front(words)) \o <<"_", Lower(words[Len(words)])>>

\* lines 36-37: "/".join([name, inp]) if name else None
NameFn(name, inp) == IF name # "" THEN Some(<<name, "/">> \o inp) ELSE NoneValue

\* lines 152-162 and 214-215: metric_name = child_name(snake-case class
\* name), under the task name given at construction
MetricName(t, metric) == NameFn(t.task_name_, CamelcaseToSnakecase(metric.class)).val

\* Python dict built entry by entry: a later entry replaces an earlier one
\* of the same key
RECURSIVE DictOf(_)
DictOf(entries) ==
    IF entries = <<>> THEN EmptyDict
    ELSE DictSet(DictOf(Front(entries)), entries[Len(entries)].key,
                 entries[Len(entries)].value)

\* lines 217-219 resetting nothing
ResetMetricsKeep(t) == t

\* lines 217-219: PredictionTask.reset_metrics
ResetMetrics(t) ==
    [t EXCEPT !.metrics = [i \in 1..Len(t.metrics) |-> MetricReset(t.metrics[i])]]

\* lines 472-473: the loop calls the metric at each of the first n
\* positions of the list in turn; a call updates the object, so every
\* position that holds this object shows the update
RECURSIVE CallMetrics(_, _, _, _)
CallMetrics(metrics, n, predictions, targets) ==
    IF n = 0 THEN metrics
    ELSE LET called == CallMetrics(metrics, n - 1, predictions, targets)
         IN [j \in 1..Len(called) |->
                IF called[j].id = called[n].id
                THEN MetricUpdate(called[j], predictions, targets)
                ELSE called[j]]

\* lines 472-473 (and 204-207): every metric of the list called on the
\* batch, the outputs keyed by metric name
UpdateMetrics(t, predictions, targets) ==
    [task |-> [t EXCEPT !.metrics =
                  CallMetrics(t.metrics, Len(t.metrics), predictions, targets)],
     outputs |-> DictOf([i \in 1..Len(t.metrics) |->
                           [key |-> MetricName(t, t.metrics[i]),
                            value |-> MetricBatchValue(t.metrics[i],
                                                       predictions, targets)]])]

\* lines 458-475: NextItemPredictionTask.calculate_metrics(predictions,
\* targets, forward=True) of a built task
CalculateMetrics(t, ib, ms, x, targets) ==
    LET out == Forward(t, ib, ms, x)
    IN IF out.error # "none"
       THEN [task |-> t, error |-> out.error, outputs |-> EmptyDict, forward |-> out]
       ELSE LET targets_ == IF t.hf_format THEN out.result.val.labels ELSE targets
                u == UpdateMetrics(t, out.predictions, targets_)
            IN [task |-> u.task, error |-> "none", outputs |-> u.outputs,
                forward |-> out]

\* lines 167-186: PredictionTask.compute_loss(inputs, targets) of a task
\* returning plain predictions, compute_metrics at its default True
ComputeLoss(t, ib, ms, x, targets) ==
    LET out == Forward(t, ib, ms, x)
    IN IF out.error # "none"
       THEN [task |-> t, error |-> out.error, loss |-> NoneValue]
       ELSE [task |-> UpdateMetrics(t, out.predictions, targets).task,
             error |-> "none",
             loss |-> Some([input |-> out.predictions, target |-> targets])]

\* lines 477-491: NextItemPredictionTask.compute_metrics
ComputeMetrics(t) ==
    LET ranking == SelectSeq(t.metrics, LAMBDA metric : metric.top_ks # <<>>)
        metrics == DictOf([i \in 1..Len(ranking) |->
                             [key |-> MetricName(t, ranking[i]),
                              value |-> MetricCompute(ranking[i])]])
        topks == DictOf([i \in 1..Len(t.metrics) |->
                           [key |-> MetricName(t, t.metrics[i]),
                            value |-> t.metrics[i].top_ks]])
        Zip(name) == [j \in 1..(IF Len(metrics[name]) < Len(topks[name])
                                THEN Len(metrics[name]) ELSE Len(topks[name])) |->
                         [key |-> name \o <<"_", topks[name][j]>>,
                          value |-> metrics[name][j]]]
    IN DictOf(Flatten([i \in 1..Len(ranking) |->
                          Zip(MetricName(t, ranking[i]))]))

\* ------------------------------------------------- inputs of the task
Temperatures == {0 - 1, 0, 1, 2}

PaddingIdxs == {0, 1}

BatchSizes == {1, 2}

\* the input sizes handed to build: lists and dicts of 1..MaxRank entries
InputSizes ==
    {[is_dict |-> is_dict,
      dims |-> [i \in 1..r |-> IF i = r THEN last ELSE MaxSeqLen]] :
        is_dict \in BOOLEAN, r \in 1..MaxRank, last \in {ItemDim, ItemDim + 1}}

\* every label tensor [B, S] over the vocabulary
LabelTensors ==
    UNION {[1..b -> [1..s -> ItemIds]] : b \in BatchSizes, s \in 1..MaxSeqLen}

\* a few batches: all padding (for either padding token), partly padded,
\* without padding
FewLabelTensors ==
    {<< <<0, 0>> >>, << <<1, 1>> >>, << <<2, 1>>, <<1, 0>> >>, << <<1, 2>> >>}

\* the hidden states of a batch of the shape of labels, with vectors of d
\* entries, every cell with its own vector; rank 2 is the batch already
\* flattened to [B * S, d]
Hidden(labels, d, rank) ==
    LET data == [b \in 1..Len(labels) |->
                    [s \in 1..Len(labels[b]) |->
                        [k \in 1..d |-> 100 * b + 10 * s + k]]]
    IN IF rank = 3 THEN Tensor(3, data) ELSE Tensor(2, Flatten(data))

\* the size of the hidden vectors a built task takes
InputDim(t) ==
    LET size == IF t.task_block.bound THEN t.task_block.val.input_size
                ELSE t.pre.val.input_size
    IN size.dims[Len(size.dims)]

MetricClasses == {<<"NDCG", "At">>, <<"Recall", "At">>}

TopKs == {<<1>>, <<1, 2>>}

\* new ranking metric objects on item-id labels, with identities 1..n
MetricObjects(n) ==
    {NewMetric(id, c, k, TRUE) : id \in 1..n, c \in MetricClasses, k \in TopKs}

\* lists of up to n new ranking metrics: an object may be in the list more
\* than once, and two objects may be of one class. The objects are
\* numbered in the order they first appear in the list
MetricLists(n) ==
    UNION {{l \in [1..m -> MetricObjects(m)] :
               /\ \A i \in 1..m : \A j \in 1..m :
                     l[i].id = l[j].id => l[i] = l[j]
               /\ \A i \in 1..m :
                     l[i].id <= Cardinality({l[j].id : j \in 1..(i - 1)}) + 1} :
              m \in 0..n}

\* the metric object id after it has been updated with rows whose relevant
\* items were at the given ranks
MetricAfter(id, class, top_ks, ranks) ==
    [NewMetric(id, class, top_ks, TRUE) EXCEPT
        !.sums = [j \in 1..Len(top_ks) |->
                    SumSeq([i \in 1..Len(ranks) |->
                               Measure(class, top_ks[j], ranks[i])])],
        !.count = Len(ranks)]

\* a few metric objects a user of the task can hold under the identity id:
\* new ones, and ones that have accumulated rows, in this task or elsewhere
FewHeldMetrics(id) ==
    {NewMetric(id, <<"Recall", "At">>, <<1>>, TRUE),
     NewMetric(id, <<"NDCG", "At">>, <<1>>, TRUE),
     MetricAfter(id, <<"Recall", "At">>, <<1, 2>>, <<1, 2, 2>>)}

\* lists of one to n distinct metric objects the user holds, numbered in
\* the order of the list
HeldMetricLists(n) ==
    UNION {{l \in [1..m -> UNION {FewHeldMetrics(id) : id \in 1..m}] :
               \A i \in 1..m : l[i].id = i} :
              m \in 1..n}

\* lines 338-343: DEFAULT_METRICS, three objects
DEFAULT_METRICS ==
    << NewMetric(1, <<"NDCG", "At">>, <<10, 20>>, TRUE),
       NewMetric(2, <<"Avg", "Precision", "At">>, <<10, 20>>, TRUE),
       NewMetric(3, <<"Recall", "At">>, <<10, 20>>, TRUE) >>

\* the input module of the model body: whether it has an item_id column,
\* its categorical module (module 1 is the item-embedding table) and its
\* masking, if any
InputBlocks ==
    {[item_id |-> item_id,
      categorical_module |-> [item_embedding_table |-> 1, item_seq |-> <<>>],
      masking |-> masking] :
        item_id \in {NoneValue, Some("item_id")},
        masking \in {NoneValue} \cup
                    {Some([padding_idx |-> p, masked_targets |-> <<>>]) :
                        p \in PaddingIdxs}}

\* the input module after it has processed a batch with the item
\* sequences labels
ProcessBatch(ib, labels) ==
    [ib EXCEPT
        !.categorical_module.item_seq = labels,
        !.masking = IF ib.masking.bound
                    THEN Some([ib.masking.val EXCEPT
                                 !.masked_targets =
                                     MaskedTargets(labels, ib.masking.val.padding_idx)])
                    ELSE ib.masking]

\* an optimizer step: every weight changed in place, the modules stay the
\* same objects
OptimizerStep(ms) ==
    [id \in 1..Len(ms) |->
        [ms[id] EXCEPT !.weight = [v \in 1..Len(@) |->
                                      [d \in 1..Len(@[v]) |-> @[v][d] + v * id]]]]

\* the controller and the prediction sink are not running
MainIdle ==
    /\ error = "none"
    /\ output_dir = "populated"
    /\ data_args = CHOOSE d \in DataArgs : TRUE
    /\ model_args = CHOOSE m \in ModelArgs : TRUE
    /\ training_args = CHOOSE a \in TrainingArgs : TRUE
    /\ trainer = NoTrainer
    /\ results_over_time = EmptyDict
    /\ max_time_index = 0
    /\ range_pos = 0
    /\ time_index = 0
    /\ time_indices_train = [kind |-> "int", val |-> 0]
    /\ time_index_eval = 0
    /\ train_data_paths = NoneValue
    /\ eval_data_paths = <<>>
    /\ train_loader = NoLoader
    /\ eval_loader = NoLoader
    /\ n_loaders = 0
    /\ train_metrics = EmptyDict
    /\ eval_metrics = EmptyDict
    /\ loggers = <<>>
    /\ writers = <<>>
    /\ results_avg_time = NoneValue
    /\ last_batch = NoneValue
    /\ iterated = <<>>

main_idle_vars ==
    << output_dir, data_args, model_args, training_args, trainer,
       results_over_time, max_time_index, range_pos, time_index,
       time_indices_train, time_index_eval, train_data_paths, eval_data_paths,
       train_loader, eval_loader, n_loaders, train_metrics, eval_metrics,
       loggers, writers, results_avg_time, last_batch, iterated >>

\* lines 345-365: a task just constructed, on a body with one of the input
\* modules; n_batches counts the batches the task has processed, calls
\* holds the build call and then the batches of the running pass
TaskInit(metric_lists, tyings, temperatures, paddings, formats, input_blocks) ==
    /\ MainIdle
    /\ pc = "task"
    /\ calls = <<>>
    /\ n_batches = 0
    /\ \E metrics \in metric_lists, weight_tying \in tyings,
          softmax_temperature \in temperatures, padding_idx \in paddings,
          hf_format \in formats :
          task = NewNextItemPredictionTask(metrics, weight_tying,
                                           softmax_temperature, padding_idx,
                                           hf_format)
    /\ input_block \in input_blocks
    /\ modules = <<NewEmbedding>>
    /\ forward_out = NoneValue

\* lines 367-410: build called with one of the input sizes (the inputs
\* argument and body.inputs are the one input module)
BuildCall(input_sizes) ==
    /\ pc = "task"
    /\ \E input_size \in input_sizes :
          LET r == Build(task, modules, input_size, input_block)
          IN /\ task' = r.task
             /\ modules' = r.modules
             /\ error' = r.error
             /\ pc' = IF r.error = "none" THEN "built" ELSE "error"
             /\ calls' = <<[op |-> "build", input_size |-> input_size]>>
    /\ UNCHANGED << main_idle_vars, n_batches, input_block, forward_out >>

\* the input module processes the next batch
InputBatch(label_tensors) ==
    /\ pc \in {"built", "evaluate"}
    /\ \E labels \in label_tensors :
          input_block' = ProcessBatch(input_block, labels)
    /\ UNCHANGED << main_idle_vars, pc, error, calls, n_batches, task, modules,
                    forward_out >>

\* the batch the input module has processed last
ItemSeq == input_block.categorical_module.item_seq

\* lines 412-447: forward called on the hidden states of the batch the
\* input module has processed
ForwardCall(ranks) ==
    /\ pc = "built"
    /\ ItemSeq # <<>>
    /\ \E rank \in ranks :
          LET out == Forward(task, input_block, modules,
                             Hidden(ItemSeq, InputDim(task), rank))
          IN /\ forward_out' = Some(out)
             /\ error' = out.error
             /\ pc' = IF out.error = "none" THEN "built" ELSE "error"
    /\ UNCHANGED << main_idle_vars, calls, n_batches, task, input_block, modules >>

\* ---------------------------------- label extraction alone (forward)
\* a task without weight tying returning plain predictions, on an input
\* module with an item_id column that has processed a batch
ExtractInit ==
    TaskInit({<<>>}, {FALSE}, {1}, PaddingIdxs, {FALSE},
             {ProcessBatch(ib, labels) :
                 ib \in {i \in InputBlocks : i.item_id.bound},
                 labels \in LabelTensors})

ExtractBuild == BuildCall({size \in InputSizes : ~BuildRejectsSize(size)})

ExtractForward == ForwardCall({3})

ExtractNext == ExtractBuild \/ ExtractForward

ExtractSpec == ExtractInit /\ [][ExtractNext]_vars

\* ------------------------------------- metrics over training and passes
\* the hidden states and the valid labels of the batch the input module
\* has processed, as the caller of the task holds them
BatchHidden == Hidden(ItemSeq, InputDim(task), 3)

\* lines 167-186: a training step calls compute_loss on the batch
ComputeLossCall ==
    /\ pc = "built"
    /\ ~task.hf_format
    /\ ItemSeq # <<>>
    /\ n_batches < MaxBatches
    /\ LET r == ComputeLoss(task, input_block, modules, BatchHidden,
                            LabelsAll(task, input_block))
       IN /\ task' = r.task
          /\ forward_out' = Some([call |-> "compute_loss", error |-> r.error,
                                  loss |-> r.loss])
    /\ n_batches' = n_batches + 1
    /\ UNCHANGED << main_idle_vars, pc, error, calls, input_block, modules >>

\* lines 164-165: set_metrics called by a user of the task (under src/ the
\* only call is that of __init__, line 84): the task holds the metric
\* objects it is given, with whatever they have accumulated: objects the
\* user holds, or the task's own objects once more; before or after build,
\* between passes or between the batches of a pass. Inside a pass the log
\* of the pass records that the metrics were set at this point
SetMetricsMark == [op |-> "set_metrics", predictions |-> <<>>, targets |-> <<>>]

SetMetricsCall ==
    /\ pc \in {"task", "built", "evaluate"}
    /\ \E metrics \in {task.metrics} \cup HeldMetricLists(1) :
          task' = SetMetrics(task, metrics)
    /\ calls' = IF pc = "evaluate" /\ (calls = <<>> \/ calls[Len(calls)] # SetMetricsMark)
                THEN Append(calls, SetMetricsMark) ELSE calls
    /\ forward_out' = Some([call |-> "set_metrics"])
    /\ UNCHANGED << main_idle_vars, pc, error, n_batches, input_block,
                    modules >>

\* an evaluation pass of the trainer starts: the accumulators are reset
\* (lines 217-219) and the batches of the pass are counted from here
EvaluateBegin ==
    /\ pc = "built"
    /\ task' = ResetMetrics(task)
    /\ calls' = <<>>
    /\ pc' = "evaluate"
    /\ UNCHANGED << main_idle_vars, error, n_batches, input_block, modules,
                    forward_out >>

\* lines 458-475: an evaluation step calls calculate_metrics on the batch
CalculateMetricsCall ==
    /\ pc = "evaluate"
    /\ ItemSeq # <<>>
    /\ n_batches < MaxBatches
    /\ LET r == CalculateMetrics(task, input_block, modules, BatchHidden,
                                 LabelsAll(task, input_block))
       IN /\ task' = r.task
          /\ forward_out' = Some([call |-> "calculate_metrics",
                                  error |-> r.error, outputs |-> r.outputs,
                                  labels_all |-> r.forward.labels_all])
          /\ calls' = Append(calls, [op |-> "calculate_metrics",
                                     predictions |-> r.forward.predictions,
                                     targets |-> r.forward.labels_all])
    /\ n_batches' = n_batches + 1
    /\ UNCHANGED << main_idle_vars, pc, error, input_block, modules >>

\* lines 477-491: the pass ends with compute_metrics
ComputeMetricsCall ==
    /\ pc = "evaluate"
    /\ forward_out' = Some([call |-> "compute_metrics",
                            results |-> ComputeMetrics(task)])
    /\ pc' = "built"
    /\ UNCHANGED << main_idle_vars, error, calls, n_batches, task, input_block,
                    modules >>

\* the input sizes and input modules build accepts
GoodSizes == {size \in InputSizes : ~BuildRejectsSize(size) /\ size.dims[3] = ItemDim}

GoodInputs == {ib \in InputBlocks : ib.item_id.bound /\ ~ib.masking.bound}

MetricsBuild == BuildCall(GoodSizes)

MetricsInputBatch == InputBatch(FewLabelTensors)

MetricsNext ==
    \/ MetricsBuild
    \/ MetricsInputBatch
    \/ SetMetricsCall
    \/ ComputeLossCall
    \/ EvaluateBegin
    \/ CalculateMetricsCall
    \/ ComputeMetricsCall

\* a task with the default metrics
MetricsInit ==
    TaskInit({DEFAULT_METRICS}, {FALSE}, {1}, PaddingIdxs, BOOLEAN, GoodInputs)

MetricsSpec == MetricsInit /\ [][MetricsNext]_vars

\* a task with any list of up to MaxMetrics ranking metrics, padding token 0
ComputeInit ==
    TaskInit(MetricLists(MaxMetrics), {FALSE}, {1}, {0}, {FALSE}, GoodInputs)

ComputeSpec == ComputeInit /\ [][MetricsNext]_vars

\* ------------------------------------------ the scoring head and build
\* a training step of the optimizer on the built model
TrainStep ==
    /\ pc = "built"
    /\ n_batches < MaxBatches
    /\ modules' = OptimizerStep(modules)
    /\ n_batches' = n_batches + 1
    /\ UNCHANGED << main_idle_vars, pc, error, calls, task, input_block,
                    forward_out >>

HeadBuild == BuildCall(InputSizes)

HeadInputBatch == InputBatch(FewLabelTensors)

\* forward on the [B, S, D] hidden states or on states already flattened
HeadForwardCall == ForwardCall({2, 3})

HeadNext == HeadBuild \/ HeadInputBatch \/ HeadForwardCall \/ TrainStep

\* a task with or without weight tying, with any temperature, on any of
\* the input modules
HeadInit ==
    TaskInit({<<>>}, BOOLEAN, Temperatures, PaddingIdxs, {FALSE}, InputBlocks)

HeadSpec == HeadInit /\ [][HeadNext]_vars

\* ============================================================ properties
\* a loop step has been entered: the step's locals hold its windows
StepEntered == range_pos > 0

\* the step is past the loop head: its partitions are resolved
StepResolved == pc \in {"train", "eval", "evaluate_train", "evaluate_eval"}

\* the indices of a list of partition files
PathIndices(paths) == [i \in 1..Len(paths) |-> paths[i].index]

\* C1: in sliding-window mode with window size K and start index s, step i
\* of the loop trains on exactly the contiguous indices s+i .. s+i+K-1 and
\* evaluates on index s+i+K; the partitions resolved for the step are the
\* files of those indices.
C1_SlidingWindowSpan ==
    (data_args.no_incremental_training /\ StepEntered) =>
        LET s == data_args.start_time_window_index
            K == data_args.training_time_window_size
            i == range_pos - 1
            span == [j \in 1..K |-> s + i + j - 1]
        IN /\ time_indices_train.kind = "list"
           /\ time_indices_train.val = span
           /\ time_index_eval = s + i + K
           /\ StepResolved =>
                /\ PathIndices(train_data_paths.val) = span
                /\ PathIndices(eval_data_paths) = <<s + i + K>>

C1_Witness ==
    /\ data_args.no_incremental_training
    /\ data_args.training_time_window_size = 2
    /\ range_pos = 2
    /\ pc = "train"

\* C2: in both window policies the evaluation window of every step is the
\* single index following the last training index; in incremental mode the
\* training window is the one index t of the step and the evaluation index
\* is t + 1.
C2_EvalFollowsTrain ==
    StepEntered =>
        LET span == IndicesAsList(time_indices_train)
        IN /\ Len(span) >= 1
           /\ time_index_eval = span[Len(span)] + 1
           /\ ~data_args.no_incremental_training =>
                /\ time_indices_train.kind = "int"
                /\ time_indices_train.val =
                       data_args.start_time_window_index + range_pos - 1
                /\ time_index_eval = time_indices_train.val + 1
           /\ StepResolved =>
                /\ Len(eval_data_paths) = 1
                /\ eval_data_paths[1].index =
                       train_data_paths.val[Len(train_data_paths.val)].index + 1

C2_Witness ==
    /\ ~data_args.no_incremental_training
    /\ range_pos = 2
    /\ pc = "evaluate_eval"

\* the evaluation index the window starting at index t would have
NextEvalIndex(t) ==
    IF data_args.no_incremental_training
    THEN t + data_args.training_time_window_size
    ELSE t + 1

\* the windows the loop has not entered yet
WindowsLeft ==
    LET limit == IF data_args.no_incremental_training
                 THEN data_args.final_time_window_index
                          - data_args.training_time_window_size + 1
                 ELSE data_args.final_time_window_index
        next == data_args.start_time_window_index + range_pos
    IN IF limit > next THEN limit - next ELSE 0

\* an upper bound of the steps the run can still take: every window takes
\* at most K + 7 steps (K batches of the train pass, one of the held-out
\* pass, five steps of main and the return to the loop head)
StepsLeft ==
    LET K == data_args.training_time_window_size
    IN WindowsLeft * (K + 7)
       + CASE pc = "preflight"      -> 4
           [] pc = "setup"          -> 3
           [] pc = "loop"           -> 2
           [] pc = "train"          -> K + 8
           [] pc = "eval"           -> K + 7
           [] pc = "evaluate_train" -> K + 6 - n_batches
           [] pc = "evaluate_eval"  -> 5 - n_batches
           [] pc = "finish"         -> 1
           [] OTHER                 -> 0

\* C3: the run ends for every start index, final index and window size
\* (every step lowers a bound of the steps left, and an evaluate pass can
\* always log its next batch or return); no step is executed with a training or
\* evaluation index above final_time_window_index; the loop is left exactly
\* when the evaluation index of the next window would be above the final
\* index.
C3_LoopTerminatesWithinFinal ==
    /\ [][StepsLeft' < StepsLeft]_vars
    /\ [](StepsLeft >= 0)
    /\ [](pc \in {"evaluate_train", "evaluate_eval"} =>
            \/ PassComplete
            \/ /\ trainer.log_predictions_callback # 0
               /\ n_batches < Len(trainer.eval_dataloader.paths))
    /\ [](StepEntered =>
            /\ \A j \in 1..Len(IndicesAsList(time_indices_train)) :
                  IndicesAsList(time_indices_train)[j]
                      <= data_args.final_time_window_index
            /\ time_index_eval <= data_args.final_time_window_index)
    /\ [](pc \in {"finish", "done"} =>
            NextEvalIndex(data_args.start_time_window_index + range_pos)
                > data_args.final_time_window_index)
    /\ [](pc = "loop" =>
            (NextEvalIndex(data_args.start_time_window_index + range_pos)
                 > data_args.final_time_window_index)
            = (max_time_index <= data_args.start_time_window_index + range_pos))

C3_Witness ==
    /\ pc = "done"
    /\ range_pos = 3
    /\ time_index_eval = data_args.final_time_window_index

\* C4: with negative sampling enabled and extra samples per batch > 0, at
\* every step, the first included, the item frequencies the sampler holds
\* when the step trains are those of the step's own training partition.
C4_SamplerUsesCurrentPartition ==
    NegSamplingEnabled(model_args) =>
        /\ error # "UnboundLocalError"
        /\ StepResolved =>
              trainer.items_freq =
                  Some(GetItemsSortedFreq(
                      GetParquetFilesNames(IndicesAsList(time_indices_train), TRUE)))

\* the evaluate calls among the calls of the current window
EvaluateCalls == SelectSeq(calls, LAMBDA c : c.op = "evaluate")

\* the window's evaluation has run and its record is stored
WindowRecorded ==
    /\ training_args.do_eval
    /\ StepEntered
    /\ pc \in {"loop", "finish", "done"}

\* C5: a window that is evaluated has exactly two evaluate passes, the first
\* over the training partition under the prefix train and the second over
\* the held-out partition under the prefix eval, and the record stored
\* under the evaluation index holds every metric of both results with the
\* value that pass returned.
C5_TwoPassesMerged ==
    WindowRecorded =>
        /\ EvaluateCalls = << Call("evaluate", "train", train_loader.id),
                              Call("evaluate", "eval", eval_loader.id) >>
        /\ train_loader.id # eval_loader.id
        /\ train_loader.paths =
               GetParquetFilesNames(IndicesAsList(time_indices_train), TRUE)
        /\ eval_loader.paths = GetParquetFilesNames(<<time_index_eval>>, FALSE)
        /\ time_index_eval \in DOMAIN results_over_time
        /\ LET record == results_over_time[time_index_eval]
           IN /\ DOMAIN record = DOMAIN train_metrics \cup DOMAIN eval_metrics
              /\ \A k \in DOMAIN train_metrics : record[k] = train_metrics[k]
              /\ \A k \in DOMAIN eval_metrics : record[k] = eval_metrics[k]

C5_Witness ==
    /\ WindowRecorded
    /\ pc = "loop"
    /\ train_metrics[<<"train", "_", "ndcg_10">>] = 5
    /\ eval_metrics[<<"eval", "_", "ndcg_10">>] = 7

\* C6: the results table is empty until the loop starts, and a step never
\* removes or changes an entry that is already written: it adds at most the
\* entry of one new evaluation index.
C6_ResultsTableAppendOnly ==
    /\ [](pc \in {"preflight", "setup"} => DOMAIN results_over_time = {})
    /\ [][/\ \A t \in DOMAIN results_over_time :
                /\ t \in DOMAIN results_over_time'
                /\ results_over_time'[t] = results_over_time[t]
          /\ Cardinality(DOMAIN results_over_time')
                <= Cardinality(DOMAIN results_over_time) + 1]_vars

C6_Witness ==
    /\ Cardinality(DOMAIN results_over_time) = 3
    /\ \E t, u \in DOMAIN results_over_time :
          results_over_time[t] # results_over_time[u]

\* the total of column c over the rows T of the results table
RECURSIVE ColumnTotal(_, _)
ColumnTotal(c, T) ==
    IF T = {} THEN 0
    ELSE LET t == CHOOSE x \in T : TRUE
         IN results_over_time[t][c] + ColumnTotal(c, T \ {t})

\* C7: at run end, when evaluation occurred, the averaged summary has for
\* each metric column m of the results table exactly the key m + "_AOD",
\* holding the arithmetic mean of m over all recorded windows; two windows
\* with 0.5 and 0.7 give 0.6.
C7_AverageOverTime ==
    /\ (pc = "done" /\ training_args.do_eval /\ trainer.saved)
           => results_avg_time.bound
    /\ results_avg_time.bound =>
        LET windows == DOMAIN results_over_time
            columns == UNION {DOMAIN results_over_time[t] : t \in windows}
            summary == results_avg_time.val
        IN /\ DOMAIN summary = {m \o <<"_AOD">> : m \in columns}
           /\ \A m \in columns :
                 LET mean == summary[m \o <<"_AOD">>]
                 IN /\ mean.den > 0
                    /\ \A t \in windows : m \in DOMAIN results_over_time[t]
                    /\ mean.num * Cardinality(windows)
                           = mean.den * ColumnTotal(m, windows)
                    /\ GCD(mean.num, mean.den) = 1

C7_Witness ==
    /\ pc = "done"
    /\ results_avg_time.bound
    /\ Cardinality(DOMAIN results_over_time) = 2
    /\ {results_over_time[t][<<"eval", "_", "ndcg_10">>] :
            t \in DOMAIN results_over_time} = {5, 7}
    /\ results_avg_time.val[<<"eval", "_", "ndcg_10", "_AOD">>] = [num |-> 6, den |-> 1]

\* nothing of the run has started: no model or trainer, no loader, no call
NothingStarted ==
    /\ ~trainer.constructed
    /\ n_loaders = 0
    /\ calls = <<>>
    /\ DOMAIN results_over_time = {}

\* C8 as stated: a populated output directory without overwrite_output_dir
\* fails the run before anything starts, whatever do_train and do_eval are.
C8_PreflightAnyMode ==
    [][(/\ pc = "preflight"
        /\ output_dir = "populated"
        /\ ~training_args.overwrite_output_dir)
          => (pc' = "error" /\ NothingStarted')]_vars

\* C8 amended: a populated output directory without overwrite_output_dir
\* fails the run before anything starts when do_train is set; when do_train
\* is not set the check is skipped and the run goes on.
C8_PreflightWhenTraining ==
    /\ [][(/\ pc = "preflight"
           /\ output_dir = "populated"
           /\ ~training_args.overwrite_output_dir)
             => IF training_args.do_train
                THEN /\ pc' = "error"
                     /\ error' = "ValueError: output directory"
                     /\ NothingStarted'
                ELSE pc' = "setup"]_vars
    /\ [](error = "ValueError: output directory" => (pc = "error" /\ NothingStarted))

C8_Witness ==
    /\ pc = "error"
    /\ error = "ValueError: output directory"
    /\ training_args.do_eval

\* C9: every prediction sink whose writer was opened during the run is
\* closed when the run has ended.
C9_SinksClosedAtRunEnd ==
    pc = "done" => \A w \in DOMAIN writers : ~writers[w].is_open

\* C10: a PredictionLogger creates its writer at most once, on the first
\* log_predictions call, with the schema of that call's rows; later calls
\* keep the writer and its schema, and every batch a call appends goes
\* through that writer.
C10_WriterCreatedOnce ==
    /\ [](\A l \in DOMAIN loggers :
            LET w == loggers[l].pq_writer
                mine == {x \in DOMAIN writers :
                            writers[x].path = loggers[l].output_parquet_path}
            IN IF w = 0
               THEN mine = {}
               ELSE /\ mine = {w}
                    /\ Len(writers[w].tables) >= 1 =>
                           writers[w].schema = Schema(writers[w].tables[1]))
    /\ [](pc = "logger" =>
            /\ (loggers[1].pq_writer = 0) = (n_batches = 0)
            /\ loggers[1].pq_writer # 0 =>
                   Len(writers[loggers[1].pq_writer].tables) = n_batches)
    /\ [][\A l \in DOMAIN loggers :
            LET w == loggers[l].pq_writer
            IN w # 0 =>
                 /\ loggers'[l].pq_writer = w
                 /\ writers'[w].schema = writers[w].schema
                 /\ writers'[w].path = writers[w].path
                 /\ Len(writers'[w].tables) >= Len(writers[w].tables)
                 /\ SubSeq(writers'[w].tables, 1, Len(writers[w].tables))
                        = writers[w].tables]_vars

C10_Witness ==
    /\ pc = "logger"
    /\ n_batches = 2
    /\ Len(writers) = 1
    /\ Len(writers[1].tables) = 2
    /\ writers[1].tables[1] # writers[1].tables[2]
    /\ writers[1].schema # {}

\* C11: every log_predictions call appends one row per label passed, also
\* when the call carries no metadata feature, and each row holds its label
\* as the one-element list relevant_item_ids.  (A call refused for a schema
\* change is left aside.)
C11_OneRowPerPrediction ==
    (/\ pc \in {"logger", "closed", "error"}
     /\ last_batch.bound
     /\ last_batch.val.labels.bound
     /\ error # "ValueError")
    => /\ error = "none"
       /\ LET w == writers[loggers[1].pq_writer]
              df == w.tables[Len(w.tables)]
              labels == last_batch.val.labels.val
          IN /\ Len(df) = Len(labels)
             /\ \A i \in 1..Len(df) :
                    df[i][<<"relevant_item_ids">>] = <<labels[i]>>

\* the number a sequence of decimal digits stands for
RECURSIVE DigitsValue(_)
DigitsValue(d) ==
    IF d = <<>> THEN 0 ELSE 10 * DigitsValue(Front(d)) + d[Len(d)]

\* the time index a partition file is named after
PartitionIndex(path) == DigitsValue(path.digits)

\* the dataset types of the rows written through writer w
PartitionTypes(w) ==
    UNION {{writers[w].tables[i][j][<<"dataset_type">>] :
                j \in 1..Len(writers[w].tables[i])} :
            i \in 1..Len(writers[w].tables)}

\* C12: with prediction logging on, every evaluated window has exactly one
\* partition, named after its evaluation index; the window's train pass and
\* eval pass both write to it; a window writes to no other partition and no
\* two windows share one.
C12_OnePartitionPerEvalIndex ==
    /\ [](\A i, j \in DOMAIN loggers :
            i # j => loggers[i].output_parquet_path # loggers[j].output_parquet_path)
    /\ [](\A v, w \in DOMAIN writers : v # w => writers[v].path # writers[w].path)
    /\ []((training_args.log_predictions /\ pc = "loop") =>
            \A t \in DOMAIN results_over_time :
                \E w \in DOMAIN writers :
                    /\ PartitionIndex(writers[w].path) = t
                    /\ PartitionTypes(w) = {"train", "eval"}
                    /\ \A v \in DOMAIN writers :
                           PartitionIndex(writers[v].path) = t => v = w)
    /\ [][\A w \in DOMAIN writers' :
            (w \notin DOMAIN writers \/ writers'[w] # writers[w]) =>
                PartitionIndex(writers'[w].path) = time_index_eval]_vars

C12_Witness ==
    /\ pc = "loop"
    /\ training_args.log_predictions
    /\ Cardinality(DOMAIN results_over_time) = 2
    /\ Len(writers) = 2
    /\ PartitionTypes(1) = {"train", "eval"}
    /\ PartitionTypes(2) = {"train", "eval"}
    /\ writers[1].path # writers[2].path

\* the cells of a [B, S] tensor
Cells(t) == {c \in (1..Len(t)) \X (1..MaxSeqLen) : c[2] <= Len(t[c[1]])}

\* cell c comes before cell d, or is d, in row-major order
RowMajorLeq(c, d) == c[1] < d[1] \/ (c[1] = d[1] /\ c[2] <= d[2])

\* the non-padding cells of the labels the latest forward call has read
ValidCells ==
    LET L == Labels(task, input_block)
    IN {c \in Cells(L) : L[c[1]][c[2]] # task.padding_idx}

\* the number of non-padding cells up to and including cell c
ValidUpTo(c) == Cardinality({d \in ValidCells : RowMajorLeq(d, c)})

\* a forward call has returned
ForwardReturned ==
    /\ pc \in {"built", "error"}
    /\ forward_out.bound
    /\ forward_out.val.call = "forward"

\* C13: the flat label list of a forward call has as many entries as the
\* label tensor has positions different from the padding value (none, and
\* no error, when every position is padding), and holds the non-padding
\* labels in row-major order.
C13_FlatLabelsAreNonPadding ==
    ForwardReturned =>
        LET L == Labels(task, input_block)
            labels_all == forward_out.val.labels_all
        IN /\ forward_out.val.error = "none"
           /\ Len(labels_all) = Cardinality(ValidCells)
           /\ \A c \in ValidCells : labels_all[ValidUpTo(c)] = L[c[1]][c[2]]

C13_Witness ==
    /\ ForwardReturned
    /\ task.padding_idx = 1
    /\ Labels(task, input_block) = << <<1, 2>>, <<0, 1>> >>
    /\ forward_out.val.labels_all = <<2, 0>>

\* C14: the filtered hidden states have one row per filtered label, and
\* row i is the whole hidden vector of the cell labels_flat[i] comes from.
C14_StatesAlignedWithLabels ==
    ForwardReturned =>
        LET x == Hidden(ItemSeq, InputDim(task), 3).data
            states_flat == forward_out.val.states_flat
        IN /\ Len(states_flat) = Len(forward_out.val.labels_all)
           /\ \A c \in ValidCells : states_flat[ValidUpTo(c)] = x[c[1]][c[2]]

C14_Witness ==
    /\ ForwardReturned
    /\ Labels(task, input_block) = << <<0, 2>>, <<1, 0>> >>
    /\ task.padding_idx = 0
    /\ forward_out.val.labels_all = <<2, 1>>
    /\ Len(forward_out.val.states_flat) = 2
    /\ forward_out.val.states_flat[1] # forward_out.val.states_flat[2]

\* every label of the batch the input module has processed is the padding
\* token of the task
AllPaddingBatch ==
    \A b \in 1..Len(Labels(task, input_block)) :
        \A s \in 1..Len(Labels(task, input_block)[b]) :
            Labels(task, input_block)[b][s] = task.padding_idx

\* C15: calculate_metrics on a batch whose labels are all padding returns
\* without error and leaves the accumulators of every metric as they were.
C15_AllPaddingBatchSkipsUpdate ==
    [][(/\ pc = "evaluate"
        /\ n_batches' = n_batches + 1
        /\ AllPaddingBatch)
       => /\ forward_out'.val.error = "none"
          /\ task'.metrics = task.metrics]_vars

\* an all-padding batch has been processed in a pass after a batch with
\* valid labels, the accumulators holding the rows of that batch
C15_Witness ==
    /\ pc = "evaluate"
    /\ AllPaddingBatch
    /\ Len(calls) = 2
    /\ calls[1].targets # <<>>
    /\ calls[2].op = "calculate_metrics"
    /\ calls[2].targets = <<>>
    /\ forward_out.val.call = "calculate_metrics"
    /\ forward_out.val.error = "none"
    /\ task.metrics[1].count = Len(calls[1].targets)

\* the task with new accumulators after the batches of calls_
RECURSIVE FreshAfter(_, _)
FreshAfter(t, calls_) ==
    IF calls_ = <<>>
    THEN [t EXCEPT !.metrics = [i \in 1..Len(t.metrics) |->
                                   MetricReset(t.metrics[i])]]
    ELSE UpdateMetrics(FreshAfter(t, Front(calls_)),
                       calls_[Len(calls_)].predictions,
                       calls_[Len(calls_)].targets).task

\* a pass has ended: compute_metrics has returned its results
PassEnded ==
    /\ pc = "built"
    /\ forward_out.bound
    /\ forward_out.val.call = "compute_metrics"

\* the pass was run on the metric objects it began with: its log holds
\* batches only
MetricsKeptInPass ==
    \A i \in 1..Len(calls) : calls[i].op = "calculate_metrics"

\* C16: the metrics computed at the end of an evaluation pass, run on the
\* metric objects the pass began with, are those of the batches of that
\* pass alone; training steps, earlier passes and whatever the objects had
\* accumulated before the pass contribute nothing.
C16_PassMetricsFromOwnBatches ==
    (PassEnded /\ MetricsKeptInPass) =>
        forward_out.val.results = ComputeMetrics(FreshAfter(task, calls))

\* a pass of one batch has ended after an earlier batch (a training step
\* or a batch of an earlier pass) had updated the metrics
C16_Witness ==
    /\ PassEnded
    /\ MetricsKeptInPass
    /\ Len(calls) = 1
    /\ n_batches = 2
    /\ calls[1].targets # <<>>
    /\ \E key \in DOMAIN forward_out.val.results :
          forward_out.val.results[key].den = 1

\* the <metric> of a result key as the claim writes it ('ndcg' for NDCGAt):
\* the words of the class name before "At", in snake case
ClaimedMetricName(class) == CamelcaseToSnakecase(Front(class))

\* the key <metric>_<k> of the claim, 'ndcg_10' for NDCGAt and cutoff 10
ClaimedKey(class, k) == ClaimedMetricName(class) \o <<"_", k>>

\* the (metric, cutoff) pairs of the task, a metric identified by its name
NamedCutoffPairs ==
    UNION {{<<task.metrics[i].class, task.metrics[i].top_ks[j]>> :
               j \in 1..Len(task.metrics[i].top_ks)} :
              i \in 1..Len(task.metrics)}

\* C17: compute_metrics returns exactly one entry per (metric, cutoff) pair
\* of the task's ranking metrics, a metric identified by its name; the entry
\* is under the key <metric>_<k> ('ndcg_10'), and its value is the measure
\* for the cutoff k of a metric of that name.
C17_OneEntryPerMetricCutoff ==
    PassEnded =>
        LET results == forward_out.val.results
        IN /\ Cardinality(DOMAIN results) = Cardinality(NamedCutoffPairs)
           /\ \A p \in NamedCutoffPairs :
                 /\ ClaimedKey(p[1], p[2]) \in DOMAIN results
                 /\ \E i \in 1..Len(task.metrics) :
                       \E j \in 1..Len(task.metrics[i].top_ks) :
                          /\ task.metrics[i].class = p[1]
                          /\ task.metrics[i].top_ks[j] = p[2]
                          /\ results[ClaimedKey(p[1], p[2])] =
                                MetricCompute(task.metrics[i])[j]

\* the item-embedding table of the input module
InputTable == input_block.categorical_module.item_embedding_table

\* C18: with weight tying, the built head refers to the item-embedding
\* table of the input module itself (no module is created for a copy), and
\* every forward call projects with the weight the table holds at that
\* call.
C18_TiedHeadSharesTable ==
    /\ []((task.built /\ task.weight_tying) =>
            /\ task.item_embedding_table = InputTable
            /\ task.pre.val.item_embedding_table = InputTable
            /\ ProjectionModule(task.pre.val) = InputTable
            /\ Len(modules) = 1)
    /\ [][(/\ task.built
           /\ task.weight_tying
           /\ forward_out' # forward_out
           /\ forward_out'.val.error = "none")
          => forward_out'.val.weight = modules[InputTable].weight]_vars

C18_Witness ==
    /\ task.built
    /\ task.weight_tying
    /\ forward_out.bound
    /\ forward_out.val.error = "none"
    /\ forward_out.val.labels_all # <<>>
    /\ modules[InputTable].weight # NewEmbedding.weight
    /\ forward_out.val.weight = modules[InputTable].weight

\* the input size of the build call
BuiltSize == calls[1].input_size

\* build has been called with an input size or an input module it must
\* refuse
BadBuildCall ==
    /\ pc # "task"
    /\ \/ BuiltSize.is_dict
       \/ Len(BuiltSize.dims) # 3
       \/ ~input_block.item_id.bound

\* C19: build raises ValueError for an input size that is a dict or has
\* not exactly three entries and for an input module without item_id
\* column, and leaves the task and the modules as they were; forward never
\* raises this error, whatever the shape of its input.
C19_BuildValidatesShape ==
    /\ [](BadBuildCall =>
            /\ pc = "error"
            /\ error = "ValueError"
            /\ ~task.embeddings.bound
            /\ ~task.masking.bound
            /\ ~task.pre.bound
            /\ ~task.built)
    /\ []((pc # "task" /\ ~BadBuildCall) => task.built)
    /\ [][pc' = "error" /\ pc = "task" => task' = task /\ modules' = modules]_vars
    /\ [](forward_out.bound => forward_out.val.error # "ValueError")

C19_Witness ==
    /\ pc = "error"
    /\ error = "ValueError"
    /\ BuiltSize.is_dict
    /\ Len(BuiltSize.dims) = 3
    /\ input_block.item_id.bound
    /\ input_block.masking.bound
    /\ task.weight_tying
    /\ ~task.built

\* the logits divided by the temperature when it is positive
ScaleIfPositive(logits, softmax_temperature) ==
    IF softmax_temperature > 0
    THEN Div(logits, softmax_temperature) ELSE logits

\* C20: the head divides the logits by the temperature, before the
\* log-softmax, exactly when the temperature is positive; for 0 and for a
\* negative temperature the logits are normalized as they are; and the
\* temperature 1 gives the output of no scaling.
C20_ScaledOnlyByPositiveTemperature ==
    (/\ pc = "built"
     /\ forward_out.bound
     /\ forward_out.val.error = "none")
    => /\ forward_out.val.predictions =
              LogSoftmax(ScaleIfPositive(forward_out.val.logits,
                                         task.softmax_temperature))
       /\ task.softmax_temperature = 1 =>
              forward_out.val.predictions = LogSoftmax(forward_out.val.logits)

\* the calls of the current window that iterate a loader
LoaderCalls == SelectSeq(calls, LAMBDA c : c.loader # 0)

\* C21: no loader is iterated by more than one pass of a run. The loaders
\* iterated so far are pairwise different objects; in a window the
\* train-set pass does not iterate the loader handed to trainer.train and
\* the held-out pass iterates a loader no earlier pass has iterated; every
\* get_dataloaders call makes two new loaders, and each pass iterates a
\* loader of the latest such call.
C21_LoadersSinglePass ==
    /\ [](\A i, j \in 1..Len(iterated) : i # j => iterated[i] # iterated[j])
    /\ [](\A i, j \in 1..Len(LoaderCalls) :
             i # j => LoaderCalls[i].loader # LoaderCalls[j].loader)
    /\ [][n_loaders' # n_loaders =>
             /\ train_loader'.id \notin 0..n_loaders
             /\ eval_loader'.id \notin 0..n_loaders
             /\ train_loader'.id # eval_loader'.id
             /\ train_loader'.id \notin {iterated[i] : i \in 1..Len(iterated)}
             /\ eval_loader'.id \notin {iterated[i] : i \in 1..Len(iterated)}]_vars
    /\ [][iterated' # iterated =>
             /\ Len(iterated') = Len(iterated) + 1
             /\ iterated'[Len(iterated')] \in {train_loader'.id, eval_loader'.id}
             /\ iterated'[Len(iterated')] > 0]_vars

\* two windows with training and both evaluation passes have run
C21_Witness ==
    /\ pc = "loop"
    /\ training_args.do_train
    /\ training_args.do_eval
    /\ Len(iterated) = 6
    /\ n_loaders = 8
    /\ Len(LoaderCalls) = 3
    /\ LoaderCalls[1].loader # LoaderCalls[2].loader

\* the train and evaluate calls among a sequence of calls, as pairs of
\* operation and metric prefix
Passes(calls_) ==
    LET sel == SelectSeq(calls_, LAMBDA c : c.op \in {"train", "evaluate"})
    IN [i \in 1..Len(sel) |-> <<sel[i].op, sel[i].prefix>>]

\* the passes of one window, in the order of lines 297, 321 and 332
WindowPasses ==
    (IF training_args.do_train THEN << <<"train", "">> >> ELSE <<>>)
    \o (IF training_args.do_eval
        THEN << <<"evaluate", "train">>, <<"evaluate", "eval">> >> ELSE <<>>)

\* the passes of a window that come before the evaluation passes
TrainPasses == IF training_args.do_train THEN << <<"train", "">> >> ELSE <<>>

\* the evaluation indices of the windows before the current one
EarlierEvalIndices ==
    {TimeIndexEval(data_args, t) :
        t \in data_args.start_time_window_index..(time_index - 1)}

\* C22: the windows run one after the other and, in a window, training
\* (if do_train) comes first, then the evaluation on the training
\* partition, then the evaluation on the held-out partition, then the
\* window's result is recorded. A window starts with no call made and with
\* the results of all earlier windows recorded; while a pass runs, the
\* passes made are those that precede it; the result is written only at
\* the end of the held-out pass, under the window's evaluation index.
C22_WindowsSequential ==
    /\ [](pc = "train" =>
            /\ calls = <<>>
            /\ training_args.do_eval =>
                  DOMAIN results_over_time = EarlierEvalIndices)
    /\ [](pc = "eval" => Passes(calls) = TrainPasses)
    /\ [](pc = "evaluate_train" =>
            /\ Passes(calls) = TrainPasses
            /\ time_index_eval \notin DOMAIN results_over_time)
    /\ [](pc = "evaluate_eval" =>
            /\ Passes(calls) = Append(TrainPasses, <<"evaluate", "train">>)
            /\ time_index_eval \notin DOMAIN results_over_time)
    /\ []((pc = "loop" /\ range_pos > 0) =>
            /\ Passes(calls) = WindowPasses
            /\ training_args.do_eval =>
                  DOMAIN results_over_time = EarlierEvalIndices \cup {time_index_eval})
    /\ [][results_over_time' # results_over_time =>
             /\ pc = "evaluate_eval"
             /\ pc' = "loop"
             /\ DOMAIN results_over_time' =
                    DOMAIN results_over_time \cup {time_index_eval}]_vars
    /\ [][time_index' # time_index =>
             /\ pc = "loop"
             /\ time_index' = IF range_pos = 0
                              THEN data_args.start_time_window_index
                              ELSE time_index + 1]_vars

\* the second window starts, the first one's result being recorded
C22_Witness ==
    /\ pc = "train"
    /\ range_pos = 2
    /\ training_args.do_train
    /\ training_args.do_eval
    /\ calls = <<>>
    /\ DOMAIN results_over_time = {time_index_eval - 1}

\* C23: every evaluate call of the controller is followed by a wipe_memory
\* call before its next train or evaluate call: in the calls of a window
\* each evaluate is directly followed by wipe_memory, so after a pass has
\* returned the latest call is wipe_memory, also between the pass on the
\* training partition and the pass on the held-out partition.
C23_WipeAfterEveryEvaluate ==
    /\ \A i \in 1..Len(calls) :
          calls[i].op = "evaluate" =>
              /\ i < Len(calls)
              /\ calls[i + 1].op = "wipe_memory"
    /\ pc = "evaluate_eval" =>
          /\ Len(calls) >= 2
          /\ calls[Len(calls) - 1] = Call("evaluate", "train", train_loader.id)
          /\ calls[Len(calls)].op = "wipe_memory"
    /\ (pc = "loop" /\ range_pos > 0 /\ training_args.do_eval) =>
          /\ Cardinality({i \in 1..Len(calls) : calls[i].op = "evaluate"}) = 2
          /\ Cardinality({i \in 1..Len(calls) : calls[i].op = "wipe_memory"}) = 2
          /\ calls[Len(calls)].op = "wipe_memory"

\* the held-out pass is running after the pass on the training partition
\* and its wipe
C23_Witness ==
    /\ pc = "evaluate_eval"
    /\ training_args.do_train
    /\ range_pos = 2
    /\ Len(calls) = 4
    /\ calls[3].op = "evaluate"
    /\ calls[4].op = "wipe_memory"

\* positions of the calls of one operation among the calls of the window
CallsOf(op) == {i \in 1..Len(calls) : calls[i].op = op}

\* C24: the scheduler is reset only for a training call: in every window
\* each train call is directly preceded by one reset_lr_scheduler call and
\* every reset_lr_scheduler call is directly followed by a train call, a
\* window has at most one of each, a reset never follows an evaluate call,
\* and without do_train there is none.
C24_ResetOnlyBeforeTrain ==
    /\ \A i \in CallsOf("train") :
          /\ i > 1
          /\ calls[i - 1].op = "reset_lr_scheduler"
    /\ \A i \in CallsOf("reset_lr_scheduler") :
          /\ i < Len(calls)
          /\ calls[i + 1].op = "train"
          /\ \A j \in 1..i : calls[j].op # "evaluate"
    /\ Cardinality(CallsOf("reset_lr_scheduler")) = Cardinality(CallsOf("train"))
    /\ Cardinality(CallsOf("train")) <= 1
    /\ pc \in {"eval", "evaluate_train", "evaluate_eval"} =>
          Cardinality(CallsOf("train")) = IF training_args.do_train THEN 1 ELSE 0
    /\ ~training_args.do_train => CallsOf("reset_lr_scheduler") = {}

\* a window with training has finished its evaluation passes
C24_Witness ==
    /\ pc = "loop"
    /\ range_pos = 2
    /\ training_args.do_train
    /\ training_args.do_eval
    /\ Len(calls) = 6
    /\ calls[1].op = "reset_lr_scheduler"
    /\ calls[2].op = "train"

\* the evaluation indices of a run from its arguments: start + 1 .. final
\* in incremental mode, start + K .. final with windows of K indices
RunEvalIndices ==
    IF data_args.no_incremental_training
    THEN (data_args.start_time_window_index
          + data_args.training_time_window_size)..data_args.final_time_window_index
    ELSE (data_args.start_time_window_index + 1)..data_args.final_time_window_index

\* C25: when a run ends with do_eval set, the keys of the results table are
\* exactly the evaluation indices of the run, and every write adds a key
\* that is new and above all keys written before; when do_eval is not set
\* the table stays empty and no averaged summary is computed.
C25_ResultKeysAreEvalIndices ==
    /\ []((pc \in {"finish", "done"} /\ training_args.do_eval) =>
            DOMAIN results_over_time = RunEvalIndices)
    /\ [](~training_args.do_eval =>
            /\ DOMAIN results_over_time = {}
            /\ ~results_avg_time.bound)
    /\ [](DOMAIN results_over_time \subseteq RunEvalIndices)
    /\ [][results_over_time' # results_over_time =>
             /\ time_index_eval \notin DOMAIN results_over_time
             /\ \A k \in DOMAIN results_over_time : k < time_index_eval
             /\ DOMAIN results_over_time' =
                    DOMAIN results_over_time \cup {time_index_eval}]_vars

\* a run over windows of two indices has ended with two recorded windows
C25_Witness ==
    /\ pc = "done"
    /\ training_args.do_eval
    /\ data_args.no_incremental_training
    /\ data_args.training_time_window_size = 2
    /\ Cardinality(DOMAIN results_over_time) = 2
    /\ DOMAIN results_over_time = RunEvalIndices
    /\ results_avg_time.bound

====
